---- MODULE Spec2Model ----
(***************************************************************************)
(* Synchronization core of daily-board (src/app.js, GitHub backend):       *)
(* updateDataToGitHub, fetchDataFromGitHub, the offline queue and its      *)
(* replay, against one remote data.json that a second writer also changes. *)
(*                                                                         *)
(* The browser runs one event loop.  An action of this model is one        *)
(* synchronous segment of a handler: from an event (user action, network   *)
(* response, online/offline signal) up to the next await.  A blocking      *)
(* confirm() dialog and a due promise continuation come before every       *)
(* other event (Busy).                                                     *)
(*                                                                         *)
(* A document is an abstract content value 0..MaxDoc (0 is the empty       *)
(* document).  The GitHub blob SHA is a function of the content.           *)
(* localStorage is a reliable key-value store (setItem does not throw).    *)
(***************************************************************************)
EXTENDS Integers, Sequences, FiniteSets, Bags, TLC

\* ---- bounds of the model ----
\* documents are 0..MaxDoc
MaxDoc == 1
\* longest pendingSyncQueue
MaxQueue == 2
\* updateDataToGitHub invocations suspended at an await at the same time
MaxProcs == 1
\* the same where overlapping invocations are looked for
MaxOverlap == 2
\* fetchDataFromGitHub requests of refreshData / saveGitHubToken in flight
MaxFetch == 1
\* enqueues (values of Date.now()) in one behaviour
MaxClock == 2

\* ---- program constants ----
NullSHA == 0

Docs == 0..MaxDoc
Responses == {"ok", "http", "neterr"}
FetchResponses == {"ok", "nocontent", "http", "neterr"}

VARIABLES
    appData,            \* let appData: content of the in-memory document
    currentSHA,         \* let currentSHA (NullSHA = null)
    isSyncing,          \* let isSyncing
    isOffline,          \* let isOffline
    pendingSyncQueue,   \* let pendingSyncQueue: entries {operation, timestamp, data}
    token,              \* GITHUB_CONFIG.token is non-empty
    lsQueue,            \* localStorage['dailyBoard_syncQueue']: <<>> absent, <<q>> present
    lsBackup,           \* localStorage['dailyBoard_backup']:    <<>> absent, <<doc>> present
    remote,             \* content of data.json in the repository
    procs,              \* bag of updateDataToGitHub invocations suspended at an await
    fetches,            \* number of other fetchDataFromGitHub requests in flight
    resuming,           \* the processPendingSyncQueue whose await has just returned
    clock,              \* Date.now(), advanced by each enqueue
    cap,                \* bound of the specification: size of procs
    lastOp,             \* history: the call that the last step ended
    lsTabs,             \* localStorage['dailyBoard_global_tabs']: <<>> absent, <<tabs>> present
    returned,           \* the value the last fetch call returned: <<>> none yet, <<value>>
    initPc,             \* initializeApp: "none" not running, "fetch" awaiting its fetch
    drivePublic,        \* the GoogleDrivePublicSyncProvider: fileId, lastFetchTime, fetchCache, isAvailable
    tokenProviders,     \* the DropboxSyncProvider and the GoogleDriveSyncProvider: accessToken, isAvailable
    lsFileId,           \* localStorage['googleDrivePublicFileId']: <<>> absent, <<id>> present
    calls,              \* bag of provider calls suspended at their fetch()
    time,               \* Date.now() as the providers read it
    localServer,        \* a server answers on http://localhost:3000
    isChecking,         \* the poll scheduler's flag: a remote-change check is under way
    polls,              \* number of poll-driven requests in flight
    errorLog,           \* localStorage['dailyBoard_errorLog']: <<>> absent, <<entries>> present
    fresh               \* history: latest start of a fetchData that succeeded since the cache was cleared

vars == <<appData, currentSHA, isSyncing, isOffline, pendingSyncQueue, token,
          lsQueue, lsBackup, remote, procs, fetches, resuming, clock, cap, lastOp,
          lsTabs, returned, initPc, drivePublic, tokenProviders, lsFileId, calls, time,
          localServer, isChecking, polls, errorLog, fresh>>

\* the state of the poll scheduler
pollVars == <<isChecking, polls>>

\* the state of the sync providers
providerVars == <<drivePublic, tokenProviders, lsFileId, calls, time, localServer, fresh>>

\* the state that the synchronization core's concurrent model leaves alone
otherVars == <<lsTabs, returned, initPc, providerVars, pollVars, errorLog>>

\* ---- values ----
None == <<>>
Some(x) == <<x>>

\* blob SHA of data.json holding document d (never null)
SHA(d) == d + 1

\* An entry's `shared` tells whether its data object is the very object that
\* appData refers to (object identity; JSON.parse(JSON.stringify(x)) is a new object).
Entry(operation, timestamp, data, shared) ==
    [operation |-> operation, timestamp |-> timestamp, data |-> data, shared |-> shared]

NoItem == Entry("", 0, 0, FALSE)

\* JSON.stringify of one queue entry / of the queue: identity is lost, values kept
StringifyEntry(e) == [operation |-> e.operation, timestamp |-> e.timestamp, data |-> e.data]
StringifyQueue(q) == [i \in 1..Len(q) |-> StringifyEntry(q[i])]

\* One suspended updateDataToGitHub invocation.
\* caller: "none" (not awaited, or nothing of the state follows the await),
\*         "manual" (saveDataImmediately, which shows a message next),
\*         "refresh" (refreshData, which fetches next),
\*         "replay" (processPendingSyncQueue; item is its local `item`).
\* conflict, choice, raced are history: the SHAs differed at the check, what
\* the user answered, the second writer's revision landed during this call and
\* is still the remote one.
NewProc(caller, item) ==
    [pc |-> "checkRemoteSHA", caller |-> caller, item |-> item, remoteSHA |-> NullSHA,
     putDoc |-> 0, putSha |-> NullSHA, conflict |-> FALSE, choice |-> "none", raced |-> FALSE]

\* history record: the call the last step ended, how it ended and why
Op(op, outcome, cause) == [op |-> op, outcome |-> outcome, cause |-> cause]
\* a step that ends no call
Step == Op("step", "none", "none")

\* what updateDataToGitHub returns: every path ends in `return;` or at the end
\* of the function body
UpdateResult(outcome) == "undefined"

\* saveDataImmediately after its await: showMessage('Data saved successfully!')
SavedMessage == "Data saved successfully!"

\* what the call shows before it returns.  The catch block: showError(errorMessage),
\* 'Failed to save data to GitHub. Changes saved locally.' and the detail of the
\* error type; the offline branch: showMessage('Offline: ...', 'error')
Shown(outcome, cause) ==
    IF outcome = "failed" THEN
        IF cause = "NO_TOKEN" THEN "Failed to save (GitHub token not configured)"
        ELSE IF cause = "FETCH_SHA_FAILED" THEN "Failed to save (Unable to fetch file metadata)"
        ELSE "Failed to save (error.message)"
    ELSE IF outcome = "queued" THEN "Offline: Changes saved locally"
    ELSE "none"

\* history record of an updateDataToGitHub call that returns to its caller:
\* the value it returns, the message it has shown and, for saveDataImmediately,
\* the message shown next
Returned(caller, outcome, cause) ==
    [op |-> "updateReturn", outcome |-> outcome, cause |-> cause,
     result |-> UpdateResult(outcome),
     shown |-> Shown(outcome, cause),
     message |-> IF caller = "manual" THEN SavedMessage ELSE "none"]

\* app.js constructs no provider: "all sync functionality is implemented
\* directly in app.js using GitHub API"
NoProviders ==
    /\ drivePublic = None
    /\ tokenProviders = None
    /\ lsFileId = None
    /\ calls = EmptyBag
    /\ time = 0
    /\ fresh = 0
    /\ isChecking = FALSE
    /\ polls = 0
    /\ errorLog = None

\* stored: what localStorage['dailyBoard_syncQueue'] may hold at the start
InitStored(maxProcs, stored) ==
    /\ cap = maxProcs
    /\ appData = 0
    /\ currentSHA = NullSHA
    /\ isSyncing = FALSE
    /\ isOffline = FALSE
    /\ pendingSyncQueue = <<>>
    /\ token \in BOOLEAN
    /\ lsQueue \in stored
    /\ lsBackup = None
    /\ remote \in Docs
    /\ procs = EmptyBag
    /\ fetches = 0
    /\ resuming = None
    /\ clock = 0
    /\ lastOp = Step
    /\ lsTabs = <<>>
    /\ returned = <<>>
    /\ initPc = "none"
    /\ NoProviders
    /\ localServer = FALSE

InitWith(maxProcs) == InitStored(maxProcs, {None})

Init == InitWith(MaxProcs)

Running == BagToSet(procs)
Add(ps, pr) == ps (+) SetToBag({pr})
Del(ps, pr) == ps (-) SetToBag({pr})

\* a confirm() dialog is open, or a promise continuation is due
Busy ==
    \/ resuming # None
    \/ \E pr \in Running : pr.pc = "confirm"

\* ---- object identity of the document ----
\* in-place mutation of the object appData refers to: every alias sees it
MutateQueue(q, d) == [i \in 1..Len(q) |-> IF q[i].shared THEN [q[i] EXCEPT !.data = d] ELSE q[i]]
MutateItems(ps, d) ==
    LET M(pr) == IF pr.item.shared THEN [pr EXCEPT !.item.data = d] ELSE pr
    IN  BagOfAll(M, ps)
\* appData is assigned another object: nothing is an alias of it any more
UnshareQueue(q) == [i \in 1..Len(q) |-> [q[i] EXCEPT !.shared = FALSE]]
UnshareItems(ps) ==
    LET U(pr) == [pr EXCEPT !.item.shared = FALSE]
    IN  BagOfAll(U, ps)

\* ---- the offline queue ----
\* faulty variant: data: appData, the entry keeps a reference, not a deep copy
addToPendingSyncQueueNoCopy(q, operation, now, ad) == Append(q, Entry(operation, now, ad, TRUE))

\* addToPendingSyncQueue: push {operation, timestamp: Date.now(), data: deep copy of appData}
addToPendingSyncQueue(q, operation, now, ad) == Append(q, Entry(operation, now, ad, FALSE))

\* saveToLocalStorage: localStorage.setItem('dailyBoard_backup', JSON.stringify(appData))
saveToLocalStorage(ad) == Some(ad)

\* loadFromLocalStorage: appData = JSON.parse(backup) if there is a backup
loadFromLocalStorage(ad, backup) == IF backup = <<>> THEN ad ELSE backup[1]

\* ---- how an updateDataToGitHub call hands control back to its caller ----
\* f: the fetches in flight before the caller goes on
Return(caller, item, outcome, f) ==
    IF caller = "replay" THEN
        /\ resuming' = Some([item |-> item, outcome |-> outcome])
        /\ fetches' = f
    ELSE IF caller = "refresh" THEN
        \* refreshData: await fetchDataFromGitHub()
        /\ f < MaxFetch
        /\ resuming' = None
        /\ fetches' = f + 1
    ELSE
        /\ resuming' = None
        /\ fetches' = f

\* ---- updateDataToGitHub, from the call to its first await ----
\* ad, q, ps: appData, pendingSyncQueue and procs as the caller left them

\* if (isOffline) { addToPendingSyncQueue(message); saveToLocalStorage(); return; }
QueueOffline(ad, q, ps, message, caller, item) ==
    /\ Len(q) < MaxQueue
    /\ clock < MaxClock
    /\ clock' = clock + 1
    /\ pendingSyncQueue' = addToPendingSyncQueue(q, message, clock + 1, ad)
    /\ lsQueue' = Some(StringifyQueue(pendingSyncQueue'))
    /\ lsBackup' = saveToLocalStorage(ad)
    /\ UNCHANGED isSyncing
    /\ procs' = ps
    /\ Return(caller, item, "queued", fetches)
    /\ lastOp' = Returned(caller, "queued", "none")

\* isSyncing = true; token present: await checkRemoteSHA()
StartWrite(ad, q, ps, message, caller, item) ==
    /\ BagCardinality(ps) < cap
    /\ pendingSyncQueue' = q
    /\ isSyncing' = TRUE
    /\ procs' = Add(ps, NewProc(caller, item))
    /\ resuming' = None
    /\ UNCHANGED <<clock, lsQueue, lsBackup, fetches>>
    /\ lastOp' = Step

\* faulty variant: the skipped call still saves the local backup
SkipWhileSyncingSaves(ad, q, ps, message, caller, item) ==
    /\ pendingSyncQueue' = q
    /\ lsBackup' = saveToLocalStorage(ad)
    /\ UNCHANGED <<clock, lsQueue, isSyncing>>
    /\ procs' = ps
    /\ Return(caller, item, "skipped", fetches)
    /\ lastOp' = Returned(caller, "skipped", "none")

\* if (isSyncing) { return; }
SkipWhileSyncing(ad, q, ps, message, caller, item) ==
    /\ pendingSyncQueue' = q
    /\ UNCHANGED <<clock, lsQueue, lsBackup, isSyncing>>
    /\ procs' = ps
    /\ Return(caller, item, "skipped", fetches)
    /\ lastOp' = Returned(caller, "skipped", "none")

\* isSyncing = true; no token: throw; catch: isSyncing = false; saveToLocalStorage()
FailNoToken(ad, q, ps, message, caller, item) ==
    /\ pendingSyncQueue' = q
    /\ isSyncing' = FALSE
    /\ lsBackup' = saveToLocalStorage(ad)
    /\ UNCHANGED <<clock, lsQueue>>
    /\ procs' = ps
    /\ Return(caller, item, "failed", fetches)
    /\ lastOp' = Returned(caller, "failed", "NO_TOKEN")

UpdateEntry(ad, q, ps, message, caller, item) ==
    /\ appData' = ad
    /\ UNCHANGED <<isOffline, token, remote, currentSHA, cap, otherVars>>
    /\ IF isOffline THEN QueueOffline(ad, q, ps, message, caller, item)
       ELSE IF isSyncing THEN SkipWhileSyncing(ad, q, ps, message, caller, item)
       ELSE IF ~token THEN FailNoToken(ad, q, ps, message, caller, item)
       ELSE StartWrite(ad, q, ps, message, caller, item)

\* ---- user actions (event handlers) ----
\* saveDateEntry / saveTabs / saveListItems: mutate appData in place, then update (not awaited)
UserEdit(d) ==
    /\ ~Busy
    /\ d # appData
    /\ UpdateEntry(d, MutateQueue(pendingSyncQueue, d), MutateItems(procs, d), "Update", "none", NoItem)

\* saveDataImmediately: await updateDataToGitHub('Manual update - save immediately')
ManualSave ==
    /\ ~Busy
    /\ UpdateEntry(appData, pendingSyncQueue, procs, "Manual", "manual", NoItem)

\* refreshData: await updateDataToGitHub('Manual refresh - save current state'), then fetch
Refresh ==
    /\ ~Busy
    /\ UpdateEntry(appData, pendingSyncQueue, procs, "Refresh", "refresh", NoItem)

\* ---- updateDataToGitHub, after its awaits ----
\* faulty variant: the comparison of the two SHAs is inverted
ConflictDetectedInverted(remoteSHA, cur) == remoteSHA # NullSHA /\ cur # NullSHA /\ remoteSHA = cur

\* the conflict test: remoteSHA && currentSHA && remoteSHA !== currentSHA
ConflictDetected(remoteSHA, cur) == remoteSHA # NullSHA /\ cur # NullSHA /\ remoteSHA # cur

\* createBackup is called: with a token its PUT is sent; without one it returns
\* false at once and the SHA refresh GET follows
BackupPc == IF token THEN "createBackup" ELSE "refreshSHA"

\* the invocation pr goes on as record new
Swap(pr, new) == Add(Del(procs, pr), new)

\* the suspended call pr returns to its caller; ps: the other invocations
Finish(pr, ps, outcome, f) ==
    /\ procs' = ps
    /\ Return(pr.caller, pr.item, outcome, f)

\* faulty variant: the catch block does not save the local backup
FailNoSave(pr, cause) ==
    /\ isSyncing' = FALSE
    /\ Finish(pr, Del(procs, pr), "failed", fetches)
    /\ lastOp' = Returned(pr.caller, "failed", cause)
    /\ UNCHANGED <<appData, currentSHA, isOffline, pendingSyncQueue, token, lsQueue, lsBackup,
                   remote, clock, cap, otherVars>>

\* catch block: isSyncing = false; logError; showError; saveToLocalStorage()
Fail(pr, cause) ==
    /\ isSyncing' = FALSE
    /\ lsBackup' = saveToLocalStorage(appData)
    /\ Finish(pr, Del(procs, pr), "failed", fetches)
    /\ lastOp' = Returned(pr.caller, "failed", cause)
    /\ UNCHANGED <<appData, currentSHA, isOffline, pendingSyncQueue, token, lsQueue, remote, clock, cap, otherVars>>

\* checkRemoteSHA answers: the SHA of data.json, or null on any failure
CheckRemoteSHAResponse(pr, resp) ==
    /\ ~Busy
    /\ pr.pc = "checkRemoteSHA"
    /\ LET remoteSHA == IF resp = "ok" THEN SHA(remote) ELSE NullSHA
           differs == remoteSHA # NullSHA /\ currentSHA # NullSHA /\ remoteSHA # currentSHA
       IN  IF ConflictDetected(remoteSHA, currentSHA) THEN
                \* isSyncing = false; confirm(...) opens
                /\ isSyncing' = FALSE
                /\ procs' = Swap(pr, [pr EXCEPT !.pc = "confirm", !.remoteSHA = remoteSHA,
                                                !.conflict = differs])
           ELSE
                /\ UNCHANGED isSyncing
                /\ procs' = Swap(pr, [pr EXCEPT !.pc = BackupPc, !.conflict = differs])
    /\ lastOp' = Step
    /\ UNCHANGED <<appData, currentSHA, isOffline, pendingSyncQueue, token, lsQueue, lsBackup,
                   remote, fetches, resuming, clock, cap, otherVars>>

\* faulty variant: force save goes on without taking the remote SHA
ConfirmStaleSHA(pr, userChoice) ==
    /\ pr.pc = "confirm"
    /\ procs' = Swap(pr, [pr EXCEPT !.pc = IF userChoice THEN "conflictFetch" ELSE BackupPc,
                                    !.choice = IF userChoice THEN "fetch" ELSE "force",
                                    !.remoteSHA = NullSHA])
    /\ lastOp' = Step
    /\ UNCHANGED <<appData, currentSHA, isSyncing, isOffline, pendingSyncQueue, token, lsQueue,
                   lsBackup, remote, fetches, resuming, clock, cap, otherVars>>

\* the user answers the dialog: OK = fetch the latest data, Cancel = force save
Confirm(pr, userChoice) ==
    /\ pr.pc = "confirm"
    /\ IF userChoice THEN
            \* await fetchDataFromGitHub(); reload the UI; return
            /\ procs' = Swap(pr, [pr EXCEPT !.pc = "conflictFetch", !.choice = "fetch",
                                            !.remoteSHA = NullSHA])
            /\ UNCHANGED currentSHA
       ELSE
            \* currentSHA = remoteSHA; fall through to createBackup
            /\ currentSHA' = pr.remoteSHA
            /\ procs' = Swap(pr, [pr EXCEPT !.pc = BackupPc, !.choice = "force",
                                            !.remoteSHA = NullSHA])
    /\ lastOp' = Step
    /\ UNCHANGED <<appData, isSyncing, isOffline, pendingSyncQueue, token, lsQueue, lsBackup,
                   remote, fetches, resuming, clock, cap, otherVars>>

\* faulty variant: a failed backup ends the update
CreateBackupResponseStops(pr, resp) ==
    /\ ~Busy
    /\ pr.pc = "createBackup"
    /\ IF resp = "ok" THEN
            /\ procs' = Swap(pr, [pr EXCEPT !.pc = "refreshSHA"])
            /\ lastOp' = Step
            /\ UNCHANGED <<appData, currentSHA, isSyncing, isOffline, pendingSyncQueue, token,
                           lsQueue, lsBackup, remote, fetches, resuming, clock, cap, otherVars>>
       ELSE Fail(pr, "BACKUP_FAILED")

\* createBackup's PUT answers; a failed backup only warns.  Then the SHA refresh GET is sent.
CreateBackupResponse(pr, resp) ==
    /\ ~Busy
    /\ pr.pc = "createBackup"
    /\ procs' = Swap(pr, [pr EXCEPT !.pc = "refreshSHA"])
    /\ lastOp' = Step
    /\ UNCHANGED <<appData, currentSHA, isSyncing, isOffline, pendingSyncQueue, token, lsQueue,
                   lsBackup, remote, fetches, resuming, clock, cap, otherVars>>

\* "Fetch latest SHA before updating" answers; on ok the data.json PUT is sent
\* with the content of appData and the SHA just read
RefreshSHAResponse(pr, resp) ==
    /\ ~Busy
    /\ pr.pc = "refreshSHA"
    /\ IF resp = "ok" THEN
            /\ currentSHA' = SHA(remote)
            /\ procs' = Swap(pr, [pr EXCEPT !.pc = "put", !.putDoc = appData, !.putSha = SHA(remote)])
            /\ lastOp' = Step
            /\ UNCHANGED <<appData, isSyncing, isOffline, pendingSyncQueue, token, lsQueue,
                           lsBackup, remote, fetches, resuming, clock, cap, otherVars>>
       ELSE Fail(pr, IF resp = "http" THEN "FETCH_SHA_FAILED" ELSE "neterr")

\* the contents API accepts a PUT only if its sha is the SHA of the blob it replaces
PutAccepted(pr) == pr.putSha = SHA(remote)

\* after a PUT of this client the remote revision is no longer the second writer's
ClearRaced(ps) ==
    LET C(q) == [q EXCEPT !.raced = FALSE]
    IN  BagOfAll(C, ps)

\* the data.json PUT answers
PutResponse(pr, resp) ==
    /\ ~Busy
    /\ pr.pc = "put"
    /\ IF resp = "ok" THEN
            /\ PutAccepted(pr)
            /\ remote' = pr.putDoc
            \* currentSHA = result.content.sha; isSyncing = false; saveToLocalStorage()
            /\ currentSHA' = SHA(pr.putDoc)
            /\ isSyncing' = FALSE
            /\ lsBackup' = saveToLocalStorage(appData)
            /\ Finish(pr, ClearRaced(Del(procs, pr)), "ok", fetches)
            /\ lastOp' = Returned(pr.caller, "ok",
                            IF pr.raced /\ pr.choice # "force" THEN "silent" ELSE "none")
            /\ UNCHANGED <<appData, isOffline, pendingSyncQueue, token, lsQueue, clock, cap, otherVars>>
       ELSE Fail(pr, IF resp = "http" THEN "UPDATE_FAILED" ELSE "neterr")

\* ---- fetchDataFromGitHub ----
\* what a response does to currentSHA and appData.
\* ok: currentSHA = metaData.sha; appData = data.
\* nocontent (no or undecodable content): currentSHA is already set when the throw happens.
\* Failures return loadFromLocalStorageFallback() and leave appData alone.
FetchEffect(resp, ps) ==
    /\ currentSHA' = IF resp \in {"ok", "nocontent"} THEN SHA(remote) ELSE currentSHA
    /\ IF resp = "ok" THEN
            /\ appData' = remote
            /\ pendingSyncQueue' = UnshareQueue(pendingSyncQueue)
            /\ procs' = UnshareItems(ps)
       ELSE
            /\ UNCHANGED <<appData, pendingSyncQueue>>
            /\ procs' = ps
    /\ UNCHANGED <<isSyncing, isOffline, token, lsQueue, lsBackup, remote, clock, cap, otherVars>>

\* the GET of refreshData / saveGitHubToken answers
FetchResponse(resp) ==
    /\ ~Busy
    /\ fetches > 0
    /\ FetchEffect(resp, procs)
    /\ fetches' = fetches - 1
    /\ resuming' = None
    /\ lastOp' = Op("fetchReturn", IF resp = "ok" THEN "ok" ELSE "failed", "none")

\* the GET of the conflict dialog's "fetch latest" answers; then updateDataToGitHub returns
ConflictFetchResponse(pr, resp) ==
    /\ ~Busy
    /\ pr.pc = "conflictFetch"
    /\ FetchEffect(resp, Del(procs, pr))
    /\ Return(pr.caller, [pr.item EXCEPT !.shared = pr.item.shared /\ resp # "ok"], "refetched", fetches)
    /\ lastOp' = Returned(pr.caller, "refetched", "none")

\* ---- processPendingSyncQueue ----
\* One turn of the while loop, entered when the awaited updateDataToGitHub has
\* returned (or at the call of processPendingSyncQueue with a non-empty queue).
\* catch (the awaited call threw): unshift(item), break, persist the queue.
\* Otherwise, queue non-empty: item = shift(); appData = item.data; await update.
\* Otherwise the loop ends: removeItem('dailyBoard_syncQueue').
ReplayStep ==
    /\ resuming # None
    /\ LET me == resuming[1]
       IN  IF me.outcome = "threw" THEN
                /\ pendingSyncQueue' = <<me.item>> \o pendingSyncQueue
                /\ lsQueue' = Some(StringifyQueue(pendingSyncQueue'))
                /\ resuming' = None
                /\ lastOp' = Op("replayEnd", "stopped", "none")
                /\ UNCHANGED <<appData, currentSHA, isSyncing, isOffline, token, lsBackup,
                               remote, procs, fetches, clock, cap, otherVars>>
           ELSE IF Len(pendingSyncQueue) > 0 THEN
                LET item == [Head(pendingSyncQueue) EXCEPT !.shared = TRUE]
                IN  UpdateEntry(item.data, UnshareQueue(Tail(pendingSyncQueue)), UnshareItems(procs),
                                item.operation, "replay", item)
           ELSE
                /\ lsQueue' = None
                /\ resuming' = None
                /\ lastOp' = Op("replayEnd", "drained", "none")
                /\ UNCHANGED <<appData, currentSHA, isSyncing, isOffline, pendingSyncQueue, token,
                               lsBackup, remote, procs, fetches, clock, cap, otherVars>>

\* ---- connectivity and credentials ----
\* window 'online': isOffline = false; processPendingSyncQueue()
Online ==
    /\ ~Busy
    /\ isOffline
    /\ isOffline' = FALSE
    /\ resuming' = IF Len(pendingSyncQueue) = 0 THEN None
                   ELSE Some([item |-> NoItem, outcome |-> "none"])
    /\ lastOp' = Step
    /\ UNCHANGED <<appData, currentSHA, isSyncing, pendingSyncQueue, token, lsQueue, lsBackup,
                   remote, procs, fetches, clock, cap, otherVars>>

\* window 'offline': isOffline = true
Offline ==
    /\ ~Busy
    /\ ~isOffline
    /\ isOffline' = TRUE
    /\ lastOp' = Step
    /\ UNCHANGED <<appData, currentSHA, isSyncing, pendingSyncQueue, token, lsQueue, lsBackup,
                   remote, procs, fetches, resuming, clock, cap, otherVars>>

\* saveGitHubToken: GITHUB_CONFIG.token = token; fetchDataFromGitHub()
SaveToken ==
    /\ ~Busy
    /\ fetches < MaxFetch
    /\ token' = TRUE
    /\ fetches' = fetches + 1
    /\ lastOp' = Step
    /\ UNCHANGED <<appData, currentSHA, isSyncing, isOffline, pendingSyncQueue, lsQueue, lsBackup,
                   remote, procs, resuming, clock, cap, otherVars>>

\* clearGitHubToken: GITHUB_CONFIG.token = ''
ClearToken ==
    /\ ~Busy
    /\ token
    /\ token' = FALSE
    /\ lastOp' = Step
    /\ UNCHANGED <<appData, currentSHA, isSyncing, isOffline, pendingSyncQueue, lsQueue, lsBackup,
                   remote, procs, fetches, resuming, clock, cap, otherVars>>

\* ---- the second writer (another device) replaces data.json ----
InUpdate(pr) == pr.pc \in {"checkRemoteSHA", "confirm", "createBackup", "refreshSHA", "put"}

SetRaced(ps) ==
    LET R(q) == IF InUpdate(q) THEN [q EXCEPT !.raced = TRUE] ELSE q
    IN  BagOfAll(R, ps)

OtherWrite(d) ==
    /\ ~Busy
    /\ d # remote
    /\ remote' = d
    /\ procs' = SetRaced(procs)
    /\ lastOp' = Step
    /\ UNCHANGED <<appData, currentSHA, isSyncing, isOffline, pendingSyncQueue, token, lsQueue,
                   lsBackup, fetches, resuming, clock, cap, otherVars>>

\* ---- specifications ----
\* the write path: the client stays online, every edit saves, and a second
\* writer changes data.json
Next ==
    \/ \E d \in Docs : UserEdit(d)
    \/ \E pr \in Running, resp \in Responses : CheckRemoteSHAResponse(pr, resp)
    \/ \E pr \in Running, userChoice \in BOOLEAN : Confirm(pr, userChoice)
    \/ \E pr \in Running, resp \in Responses : CreateBackupResponse(pr, resp)
    \/ \E pr \in Running, resp \in Responses : RefreshSHAResponse(pr, resp)
    \/ \E pr \in Running, resp \in Responses : PutResponse(pr, resp)
    \/ \E pr \in Running, resp \in FetchResponses : ConflictFetchResponse(pr, resp)
    \/ ClearToken
    \/ \E d \in Docs : OtherWrite(d)

Spec == Init /\ [][Next]_vars

\* the write path together with the Save button and the fetches of refreshData
\* and saveGitHubToken
NextSync ==
    \/ Next
    \/ ManualSave
    \/ Refresh
    \/ \E resp \in FetchResponses : FetchResponse(resp)
    \/ SaveToken

SpecSync == Init /\ [][NextSync]_vars

\* the same with overlapping invocations
InitOverlap == InitWith(MaxOverlap)

SpecOverlap == InitOverlap /\ [][NextSync]_vars

\* the offline queue of a sole writer: edits, connectivity changes, replay and
\* the writes it starts
NextQueue ==
    \/ \E d \in Docs : UserEdit(d)
    \/ \E pr \in Running, resp \in Responses : CheckRemoteSHAResponse(pr, resp)
    \/ \E pr \in Running, resp \in Responses : CreateBackupResponse(pr, resp)
    \/ \E pr \in Running, resp \in Responses : RefreshSHAResponse(pr, resp)
    \/ \E pr \in Running, resp \in Responses : PutResponse(pr, resp)
    \/ ReplayStep
    \/ Online
    \/ Offline

SpecQueue == Init /\ [][NextQueue]_vars

\* ---- process start ----
\* localStorage['dailyBoard_syncQueue'] holds text that JSON.parse rejects
Unparseable == Some(<<[operation |-> "{", timestamp |-> 0, data |-> 0]>>)

\* faulty variant: the stored queue is read newest first
loadPendingSyncQueueReversed(queueData) ==
    IF queueData = None \/ queueData = Unparseable THEN <<>>
    ELSE [i \in 1..Len(queueData[1]) |->
            LET e == queueData[1][Len(queueData[1]) + 1 - i]
            IN  Entry(e.operation, e.timestamp, e.data, FALSE)]

\* loadPendingSyncQueue: pendingSyncQueue = JSON.parse(queueData) when the key is
\* present; catch: pendingSyncQueue = []
loadPendingSyncQueue(queueData) ==
    IF queueData = None \/ queueData = Unparseable THEN <<>>
    ELSE [i \in 1..Len(queueData[1]) |->
            Entry(queueData[1][i].operation, queueData[1][i].timestamp, queueData[1][i].data, FALSE)]

\* the document initializeApp makes of the empty one: tabs = [{name: 'My List'}],
\* a document of its own next to those that are edited and fetched
DefaultTabDoc == MaxDoc + 1

\* The page is loaded (between calls of the page before): initializeApp up to
\* its await.  setupOfflineDetection: isOffline = !navigator.onLine;
\* loadPendingSyncQueue, which calls processPendingSyncQueue when the queue is
\* non-empty and the client online (its first turn runs up to its await: shift,
\* appData = item.data, updateDataToGitHub); loadFromLocalStorage;
\* fetchDataFromGitHub is called.
Start(online) ==
    /\ ~Busy
    /\ initPc = "none"
    /\ procs = EmptyBag
    /\ fetches = 0
    /\ isOffline' = ~online
    /\ currentSHA' = NullSHA
    /\ initPc' = "fetch"
    /\ LET loaded == loadPendingSyncQueue(lsQueue)
           item == Head(loaded)
       IN  IF Len(loaded) > 0 /\ online THEN
                /\ pendingSyncQueue' = Tail(loaded)
                /\ IF token THEN
                        \* isSyncing = true; await checkRemoteSHA()
                        /\ isSyncing' = TRUE
                        /\ procs' = SetToBag({NewProc("replay", [item EXCEPT !.shared = lsBackup = None])})
                        /\ resuming' = None
                        /\ UNCHANGED lsBackup
                        /\ lastOp' = Op("start", "replay", "none")
                   ELSE
                        \* throw; catch: isSyncing = false; saveToLocalStorage()
                        /\ isSyncing' = FALSE
                        /\ procs' = EmptyBag
                        /\ resuming' = Some([item |-> item, outcome |-> "failed"])
                        /\ lsBackup' = saveToLocalStorage(item.data)
                        /\ lastOp' = Op("start", "replay", "NO_TOKEN")
                /\ appData' = loadFromLocalStorage(item.data, lsBackup')
           ELSE
                /\ pendingSyncQueue' = loaded
                /\ isSyncing' = FALSE
                /\ procs' = EmptyBag
                /\ resuming' = None
                /\ UNCHANGED lsBackup
                /\ appData' = loadFromLocalStorage(0, lsBackup)
                /\ lastOp' = Op("start", "loaded", "none")
    /\ UNCHANGED <<token, lsQueue, remote, fetches, clock, cap, lsTabs, returned, providerVars,
                   pollVars, errorLog>>

\* initializeApp after its fetch.  fetchDataFromGitHub as in FetchEffect; then a
\* document without a tab gets the default tab (in place) and, with a token, is saved.
StartFetchResponse(resp) ==
    /\ ~Busy
    /\ initPc = "fetch"
    /\ initPc' = "none"
    /\ currentSHA' = IF resp \in {"ok", "nocontent"} THEN SHA(remote) ELSE currentSHA
    /\ LET fetched == IF resp = "ok" THEN remote ELSE appData
           q == IF resp = "ok" THEN UnshareQueue(pendingSyncQueue) ELSE pendingSyncQueue
           ps == IF resp = "ok" THEN UnshareItems(procs) ELSE procs
       IN  IF fetched # 0 THEN
                /\ appData' = fetched
                /\ pendingSyncQueue' = q
                /\ procs' = ps
                /\ lastOp' = Op("start", "fetched", "none")
                /\ UNCHANGED <<isSyncing, lsQueue, lsBackup, fetches, resuming, clock>>
           ELSE
                /\ appData' = DefaultTabDoc
                /\ IF ~token THEN
                        /\ pendingSyncQueue' = MutateQueue(q, DefaultTabDoc)
                        /\ procs' = MutateItems(ps, DefaultTabDoc)
                        /\ lastOp' = Op("start", "fetched", "none")
                        /\ UNCHANGED <<isSyncing, lsQueue, lsBackup, fetches, resuming, clock>>
                   ELSE IF isOffline THEN
                        QueueOffline(DefaultTabDoc, MutateQueue(q, DefaultTabDoc),
                                     MutateItems(ps, DefaultTabDoc), "Initialize", "none", NoItem)
                   ELSE IF isSyncing THEN
                        SkipWhileSyncing(DefaultTabDoc, MutateQueue(q, DefaultTabDoc),
                                         MutateItems(ps, DefaultTabDoc), "Initialize", "none", NoItem)
                   ELSE StartWrite(DefaultTabDoc, MutateQueue(q, DefaultTabDoc),
                                   MutateItems(ps, DefaultTabDoc), "Initialize", "none", NoItem)
    /\ UNCHANGED <<isOffline, token, remote, cap, lsTabs, returned, providerVars, pollVars, errorLog>>

\* the offline queue across page loads
NextStart ==
    \/ NextQueue
    \/ \E online \in BOOLEAN : Start(online)
    \/ \E resp \in FetchResponses : StartFetchResponse(resp)

InitStart == InitStored(MaxProcs, {None, Unparseable})

SpecStart == InitStart /\ [][NextStart]_vars

\* page loads alone: the only writes are those that initializeApp starts
NextInit ==
    \/ \E online \in BOOLEAN : Start(online)
    \/ \E resp \in FetchResponses : StartFetchResponse(resp)
    \/ \E pr \in Running, resp \in Responses : CheckRemoteSHAResponse(pr, resp)
    \/ \E pr \in Running, resp \in Responses : CreateBackupResponse(pr, resp)
    \/ \E pr \in Running, resp \in Responses : RefreshSHAResponse(pr, resp)
    \/ \E pr \in Running, resp \in Responses : PutResponse(pr, resp)

SpecInit == InitStart /\ [][NextInit]_vars

\* the session before ended offline with two entries in the stored queue
StoredQueue ==
    Some(<<[operation |-> "Update", timestamp |-> -1, data |-> 1],
           [operation |-> "Update", timestamp |-> 0, data |-> 0]>>)

InitReplay == InitStored(MaxProcs, {StoredQueue})

SpecReplay == InitReplay /\ [][NextStart]_vars

\* ---- reconnection ----
\* The sole writer whose requests all succeed: edits are made before the
\* connection is lost and while it is lost; once something is queued the
\* connection returns and stays, and nothing else is edited.
Succeed ==
    \E pr \in Running :
        \/ CheckRemoteSHAResponse(pr, "ok")
        \/ CreateBackupResponse(pr, "ok")
        \/ RefreshSHAResponse(pr, "ok")
        \/ PutResponse(pr, "ok")

NextReconnect ==
    \/ \E d \in Docs : (isOffline \/ clock = 0) /\ UserEdit(d)
    \/ Succeed
    \/ ReplayStep
    \/ Online
    \/ clock = 0 /\ Offline

\* a token is configured
InitReconnect == Init /\ token = TRUE

\* every response arrives, every continuation runs, the 'online' event is delivered
SpecReconnect ==
    /\ InitReconnect
    /\ [][NextReconnect]_vars
    /\ WF_vars(Succeed) /\ WF_vars(ReplayStep) /\ WF_vars(Online)

\* ======================= the documents =======================
\* The same GitHub data path with the documents spelled out, for one client that
\* is the only writer and lets each call end before the next event: appData,
\* the local backup and the fetched values are JSON objects, the content of
\* data.json is bytes.  Here remote is [content, sha] and currentSHA is the sha
\* of a revision (a number above NullSHA, new with each accepted PUT).

\* ---- bounds of the documents ----
\* longest tabs array
MaxTabs == 1
\* longest string
MaxLen == 1
\* revisions of data.json in one behaviour
MaxRev == 2

FieldNames == {"dateEntries", "tabs", "listItems"}

\* code points of the characters in use: 'A' (one UTF-8 byte), U+00E9 (two bytes)
Chars == {65, 233}
Strings == UNION {[1..n -> Chars] : n \in 1..MaxLen}
\* the strings a tabs array holds (tab names), in order
TabLists == UNION {[1..k -> Strings] : k \in 0..MaxTabs}
\* the strings a dateEntries or listItems object holds
Notes == {<<>>, <<<<65>>>>}

\* a JSON value: its type and the strings in it
Value(type, items) == [type |-> type, items |-> items]
JsonNull == Value("null", <<>>)

\* a JSON object is a function from its keys; a document has the three keys
Document(e, t, l) ==
    [dateEntries |-> Value("object", e), tabs |-> Value("array", t), listItems |-> Value("object", l)]
Documents == {Document(e, t, l) : e \in Notes, t \in TabLists, l \in Notes}

\* let appData = { dateEntries: {}, tabs: [], listItems: {} }
EmptyDocument == Document(<<>>, <<>>, <<>>)

\* the empty default of a field: {} / [] / {}
EmptyOf(f) == IF f = "tabs" THEN Value("array", <<>>) ELSE Value("object", <<>>)

\* JavaScript truthiness of a JSON value: objects and arrays are truthy, null is not
Truthy(v) == v.type # "null"

\* faulty variant: only a missing document is replaced, no field is defaulted
initializeDataStructureNoDefaults(data) == IF data = JsonNull THEN <<>> ELSE data

\* initializeDataStructure: a field that is missing or falsy gets its empty default
initializeDataStructure(data) ==
    LET obj == IF data = JsonNull THEN <<>> ELSE data
    IN  [f \in FieldNames \cup DOMAIN obj |->
            IF f \in DOMAIN obj /\ (f \notin FieldNames \/ Truthy(obj[f])) THEN obj[f] ELSE EmptyOf(f)]

\* TextEncoder: the UTF-8 bytes of one code point (below U+0800)
UTF8(c) == IF c < 128 THEN <<c>> ELSE <<192 + (c \div 64), 128 + (c % 64)>>

RECURSIVE TextEncode(_)
TextEncode(str) == IF str = <<>> THEN <<>> ELSE UTF8(Head(str)) \o TextEncode(Tail(str))

\* atob: a binary string, one character per byte, its code the byte
atob(bytes) == [i \in 1..Len(bytes) |-> bytes[i]]

\* the body of the PUT: btoa of the UTF-8 bytes of JSON.stringify(appData);
\* the repository stores those bytes
PutContent(doc) ==
    [f \in DOMAIN doc |-> [doc[f] EXCEPT !.items = [i \in 1..Len(@) |-> TextEncode(@[i])]]]

\* the fetch: JSON.parse(atob(content)), the base64 of the stored bytes
ParseContent(content) ==
    [f \in DOMAIN content |-> [content[f] EXCEPT !.items = [i \in 1..Len(@) |-> atob(@[i])]]]

\* loadFromLocalStorageFallback: tabs from 'dailyBoard_global_tabs' if present,
\* the other fields empty
loadFromLocalStorageFallback(tabsData) ==
    initializeDataStructure(IF tabsData = <<>> THEN <<>> ELSE [tabs |-> tabsData[1]])

\* the name of the default tab, 'My List' (the letter M stands for it)
DefaultTab == <<<<77>>>>

\* pc: where initializeApp is ("none": it is not running)
DocInitAt(pc) ==
    /\ cap = MaxProcs
    /\ appData = EmptyDocument
    /\ currentSHA = NullSHA
    /\ isSyncing = FALSE
    /\ isOffline = FALSE
    /\ pendingSyncQueue = <<>>
    /\ token \in BOOLEAN
    /\ lsQueue = <<>>
    /\ lsBackup = <<>>
    /\ remote \in {[content |-> PutContent(d), sha |-> NullSHA + 1] : d \in Documents}
    /\ procs = EmptyBag
    /\ fetches = 0
    /\ resuming = <<>>
    /\ clock = 0
    /\ lastOp = Step
    /\ lsTabs = <<>>
    /\ returned = <<>>
    /\ initPc = pc
    /\ NoProviders
    /\ localServer \in BOOLEAN

DocInit == DocInitAt("none")

DocResponses == {"ok", "shafail", "putfail", "neterr"}

\* updateDataToGitHub run to its end, online and with no write in flight.
\* The remote SHA is currentSHA or currentSHA is null (sole writer): no conflict.
\* shafail: the SHA refresh is refused; putfail: the SHA refresh answers, the PUT
\* is refused; neterr: the first fetch() rejects.
DocUpdateEffect(ad, resp) ==
    /\ lsBackup' = saveToLocalStorage(ad)
    /\ IF ~token THEN
            /\ UNCHANGED <<remote, currentSHA>>
            /\ lastOp' = Returned("none", "failed", "NO_TOKEN")
       ELSE IF resp = "ok" THEN
            /\ remote.sha < MaxRev
            /\ remote' = [content |-> PutContent(ad), sha |-> remote.sha + 1]
            /\ currentSHA' = remote'.sha
            /\ lastOp' = Returned("none", "ok", "none")
       ELSE
            /\ UNCHANGED remote
            /\ currentSHA' = IF resp = "putfail" THEN remote.sha ELSE currentSHA
            /\ lastOp' = Returned("none", "failed",
                            IF resp = "putfail" THEN "UPDATE_FAILED"
                            ELSE IF resp = "shafail" THEN "FETCH_SHA_FAILED" ELSE "neterr")

\* the user changes the document to d; the handler calls updateDataToGitHub
DocUpdate(d, resp) ==
    /\ initPc = "none"
    /\ ~isOffline /\ ~isSyncing
    /\ d # appData
    /\ appData' = d
    /\ DocUpdateEffect(d, resp)
    /\ UNCHANGED <<isSyncing, isOffline, pendingSyncQueue, token, lsQueue, procs, fetches,
                   resuming, clock, cap, lsTabs, returned, initPc,
                   providerVars, pollVars, errorLog>>

\* fetchDataFromGitHub run to its end
DocFetchEffect(resp) ==
    /\ currentSHA' = IF resp \in {"ok", "nocontent"} THEN remote.sha ELSE currentSHA
    /\ IF resp = "ok" THEN
            LET data == initializeDataStructure(ParseContent(remote.content))
            IN  /\ appData' = data
                /\ returned' = Some(data)
       ELSE
            /\ UNCHANGED appData
            /\ returned' = Some(loadFromLocalStorageFallback(lsTabs))
    /\ lastOp' = Op("fetchReturn", IF resp = "ok" THEN "ok" ELSE "failed",
                    IF resp = "ok" THEN "none" ELSE resp)

\* fetchDataFromGitHub called on its own (saveGitHubToken), or awaited by initializeApp
DocFetch(resp) ==
    /\ initPc \in {"none", "fetch"}
    /\ DocFetchEffect(resp)
    /\ initPc' = IF initPc = "fetch" THEN "tabs" ELSE "none"
    /\ UNCHANGED <<isSyncing, isOffline, pendingSyncQueue, token, lsQueue, lsBackup, remote,
                   procs, fetches, resuming, clock, cap, lsTabs,
                   providerVars, pollVars, errorLog>>

\* the page is loaded again: the script's variables start over, localStorage stays.
\* initializeApp: loadPendingSyncQueue (no queue here), loadFromLocalStorage,
\* then await fetchDataFromGitHub()
DocRestart ==
    /\ initPc = "none"
    /\ appData' = loadFromLocalStorage(EmptyDocument, lsBackup)
    /\ currentSHA' = NullSHA
    /\ returned' = <<>>
    /\ initPc' = "fetch"
    /\ lastOp' = Step
    /\ UNCHANGED <<isSyncing, isOffline, pendingSyncQueue, token, lsQueue, lsBackup, remote,
                   procs, fetches, resuming, clock, cap, lsTabs,
                   providerVars, pollVars, errorLog>>

\* initializeApp after its fetch: with no tab, make the default tab and, with a
\* token, save it
InitDefaultTab(resp) ==
    /\ initPc = "tabs"
    /\ initPc' = "none"
    /\ IF appData.tabs.items = <<>> THEN
            /\ appData' = [appData EXCEPT !.tabs = Value("array", DefaultTab)]
            /\ IF token THEN DocUpdateEffect(appData', resp)
               ELSE /\ lastOp' = Step
                    /\ UNCHANGED <<lsBackup, remote, currentSHA>>
       ELSE
            /\ lastOp' = Step
            /\ UNCHANGED <<appData, lsBackup, remote, currentSHA>>
    /\ UNCHANGED <<isSyncing, isOffline, pendingSyncQueue, token, lsQueue, procs, fetches,
                   resuming, clock, cap, lsTabs, returned,
                   providerVars, pollVars, errorLog>>

DocNext ==
    \/ \E d \in Documents, resp \in DocResponses : DocUpdate(d, resp)
    \/ \E resp \in FetchResponses : DocFetch(resp)
    \/ DocRestart
    \/ \E resp \in DocResponses : InitDefaultTab(resp)

SpecDoc == DocInit /\ [][DocNext]_vars

\* ======================= what each backend's fetch returns =======================
\* The content of the remote file is a JSON object with any of the three fields
\* missing, null, empty or holding one entry.

FieldValues(f) == {JsonNull, EmptyOf(f), Value(EmptyOf(f).type, <<<<65>>>>)}
JsonObjects ==
    UNION {[present -> UNION {FieldValues(f) : f \in FieldNames}] : present \in SUBSET FieldNames}

\* response.text() / response.json(): UTF-8 bytes to code points
RECURSIVE TextDecode(_)
TextDecode(bytes) ==
    IF bytes = <<>> THEN <<>>
    ELSE IF Head(bytes) < 128 \/ Len(bytes) = 1 THEN <<Head(bytes)>> \o TextDecode(Tail(bytes))
    ELSE <<(Head(bytes) - 192) * 64 + (bytes[2] - 128)>> \o TextDecode(Tail(Tail(bytes)))

\* response.json(), JSON.parse(await response.text()): every string decoded
ResponseJson(content) ==
    [f \in DOMAIN content |-> [content[f] EXCEPT !.items = [i \in 1..Len(@) |-> TextDecode(@[i])]]]

\* fetchDataFromGitHub on a response with content
GitHubFetchData(content) == initializeDataStructure(ParseContent(content))

\* typeof v === 'object' (true of null), Array.isArray(v)
TypeofObject(v) == v.type \in {"object", "array", "null"}
IsArray(v) == v.type = "array"

\* GoogleDrivePublicSyncProvider.fetchData on a JSON object: missing fields are
\* added, fields of another type are reset
DrivePublicValidate(data) ==
    LET filled == [f \in FieldNames \cup DOMAIN data |-> IF f \in DOMAIN data THEN data[f] ELSE EmptyOf(f)]
    IN  [f \in DOMAIN filled |->
            IF f = "tabs" THEN (IF IsArray(filled[f]) THEN filled[f] ELSE EmptyOf(f))
            ELSE IF f \in FieldNames
                 THEN (IF ~TypeofObject(filled[f]) \/ IsArray(filled[f]) THEN EmptyOf(f) ELSE filled[f])
            ELSE filled[f]]

DrivePublicFetchData(content) == DrivePublicValidate(ResponseJson(content))

\* DropboxSyncProvider.fetchData on a downloaded file: return await response.json()
DropboxFetchData(content) == ResponseJson(content)

\* GoogleDriveSyncProvider.fetchData on a downloaded file: return await response.json()
GoogleDriveFetchData(content) == ResponseJson(content)

Backends == {"github", "google-drive-public", "dropbox", "google-drive"}

FetchData(backend, content) ==
    IF backend = "github" THEN GitHubFetchData(content)
    ELSE IF backend = "google-drive-public" THEN DrivePublicFetchData(content)
    ELSE IF backend = "dropbox" THEN DropboxFetchData(content)
    ELSE GoogleDriveFetchData(content)

SchemaInit ==
    /\ cap = MaxProcs
    /\ appData = EmptyDocument
    /\ currentSHA = NullSHA
    /\ isSyncing = FALSE
    /\ isOffline = FALSE
    /\ pendingSyncQueue = <<>>
    /\ token = TRUE
    /\ lsQueue = <<>>
    /\ lsBackup = <<>>
    /\ remote \in {[content |-> c, sha |-> NullSHA + 1] : c \in JsonObjects}
    /\ procs = EmptyBag
    /\ fetches = 0
    /\ resuming = <<>>
    /\ clock = 0
    /\ lastOp = Step
    /\ lsTabs = <<>>
    /\ returned = <<>>
    /\ initPc = "none"
    /\ NoProviders
    /\ localServer = FALSE

\* the fetch of one backend downloads the file and returns
SchemaFetch(backend) ==
    /\ returned' = Some(FetchData(backend, remote.content))
    /\ lastOp' = Op("fetchReturn", "ok", backend)
    /\ UNCHANGED <<appData, currentSHA, isSyncing, isOffline, pendingSyncQueue, token, lsQueue,
                   lsBackup, remote, procs, fetches, resuming, clock, cap, lsTabs, initPc,
                   providerVars, pollVars, errorLog>>

SchemaNext == \E backend \in Backends : SchemaFetch(backend)

SpecSchema == SchemaInit /\ [][SchemaNext]_vars

\* ======================= the fields of appData =======================
\* The document model over a remote file that may lack fields: the UI mutations
\* field by field, offline edits that are queued, their replay and page loads.
\* A replay runs item by item with nothing else between its items.

\* the values a handler gives a field: saveDateEntry, saveTabs, saveListItems
Mutations(f) == {EmptyOf(f), Value(EmptyOf(f).type, <<<<65>>>>)}

\* appData.f = v
SetField(ad, f, v) == [g \in DOMAIN ad \cup {f} |-> IF g = f THEN v ELSE ad[g]]

\* a handler changes one field and calls updateDataToGitHub, online
FieldUpdate(f, v, resp) == DocUpdate(SetField(appData, f, v), resp)

\* the same offline: addToPendingSyncQueue, saveToLocalStorage
FieldUpdateOffline(f, v) ==
    /\ initPc = "none"
    /\ isOffline
    /\ Len(pendingSyncQueue) < MaxQueue
    /\ clock < MaxClock
    /\ appData' = SetField(appData, f, v)
    /\ appData' # appData
    /\ clock' = clock + 1
    /\ pendingSyncQueue' = addToPendingSyncQueue(pendingSyncQueue, "Update data", clock', appData')
    /\ lsQueue' = Some(StringifyQueue(pendingSyncQueue'))
    /\ lsBackup' = saveToLocalStorage(appData')
    /\ lastOp' = Returned("none", "queued", "none")
    /\ UNCHANGED <<currentSHA, isSyncing, isOffline, token, remote, procs, fetches, resuming,
                   cap, lsTabs, returned, initPc, providerVars, pollVars, errorLog>>

\* one turn of the loop of processPendingSyncQueue: shift, appData = item.data,
\* await updateDataToGitHub; after the last item the stored queue is removed
ReplayItem(resp) ==
    /\ appData' = Head(pendingSyncQueue).data
    /\ DocUpdateEffect(appData', resp)
    /\ pendingSyncQueue' = Tail(pendingSyncQueue)
    /\ lsQueue' = IF pendingSyncQueue' = <<>> THEN None ELSE lsQueue
    /\ initPc' = IF pendingSyncQueue' = <<>> THEN "none" ELSE "replay"

\* the 'offline' event
FieldOffline ==
    /\ initPc = "none"
    /\ ~isOffline
    /\ isOffline' = TRUE
    /\ lastOp' = Step
    /\ UNCHANGED <<appData, currentSHA, isSyncing, pendingSyncQueue, token, lsQueue, lsBackup,
                   remote, procs, fetches, resuming, clock, cap, lsTabs, returned, initPc,
                   providerVars, pollVars, errorLog>>

\* the 'online' event: isOffline = false; processPendingSyncQueue()
FieldOnline(resp) ==
    /\ initPc = "none"
    /\ isOffline
    /\ isOffline' = FALSE
    /\ IF pendingSyncQueue = <<>>
       THEN /\ lastOp' = Step
            /\ UNCHANGED <<appData, currentSHA, pendingSyncQueue, lsQueue, lsBackup, remote, initPc>>
       ELSE ReplayItem(resp)
    /\ UNCHANGED <<isSyncing, token, procs, fetches, resuming, clock, cap, lsTabs, returned,
                   providerVars, pollVars, errorLog>>

\* the next turn of the loop
FieldReplay(resp) ==
    /\ initPc = "replay"
    /\ ReplayItem(resp)
    /\ UNCHANGED <<isSyncing, isOffline, token, procs, fetches, resuming, clock, cap, lsTabs,
                   returned, providerVars, pollVars, errorLog>>

\* the page is loaded again while online: loadPendingSyncQueue,
\* loadFromLocalStorage, then await fetchDataFromGitHub()
FieldRestart ==
    /\ initPc = "none"
    /\ ~isOffline
    /\ pendingSyncQueue = <<>>
    /\ appData' = loadFromLocalStorage(EmptyDocument, lsBackup)
    /\ currentSHA' = NullSHA
    /\ returned' = None
    /\ initPc' = "fetch"
    /\ lastOp' = Step
    /\ UNCHANGED <<isSyncing, isOffline, pendingSyncQueue, token, lsQueue, lsBackup, remote,
                   procs, fetches, resuming, clock, cap, lsTabs, providerVars, pollVars, errorLog>>

\* the remote file at the start: each field missing, null or empty
SparseObjects == {c \in JsonObjects : \A f \in DOMAIN c : c[f] \in {JsonNull, EmptyOf(f)}}

FieldsInit ==
    /\ SchemaInit
    /\ remote.content \in SparseObjects

FieldsNext ==
    \/ \E f \in FieldNames, resp \in DocResponses : \E v \in Mutations(f) : FieldUpdate(f, v, resp)
    \/ \E f \in FieldNames : \E v \in Mutations(f) : FieldUpdateOffline(f, v)
    \/ FieldOffline
    \/ \E resp \in DocResponses : FieldOnline(resp)
    \/ \E resp \in DocResponses : FieldReplay(resp)
    \/ FieldRestart
    \/ \E resp \in FetchResponses : DocFetch(resp)
    \/ \E resp \in DocResponses : InitDefaultTab(resp)

SpecFields == FieldsInit /\ [][FieldsNext]_vars

\* ======================= the tabs =======================
\* The document model from a page load on: initializeApp is at its fetch in the
\* first state, so initPc = "none" says that initializeApp has completed.

\* the name of an added tab, `List ${tabNumber}` (the letter L stands for it)
NewTab == <<76>>

\* tabs.filter(tab => tab.id !== tabId), tabId the id of the i-th tab
RemoveTab(tabs, i) == [k \in 1..(Len(tabs) - 1) |-> IF k < i THEN tabs[k] ELSE tabs[k + 1]]

\* addTab: tabs.push(newTab); saveTabs(tabs)
AddTab(resp) ==
    /\ Len(appData.tabs.items) <= MaxTabs
    /\ DocUpdate(SetField(appData, "tabs", Value("array", Append(appData.tabs.items, NewTab))), resp)

\* deleteTab: with one tab or none, showError and return; else saveTabs of the
\* filtered tabs (the second updateDataToGitHub of the handler sends the same document)
DeleteTab(i, resp) ==
    IF Len(appData.tabs.items) <= 1 THEN
        /\ initPc = "none"
        /\ i = 1
        /\ lastOp' = Op("showError", "none", "You must have at least one list!")
        /\ UNCHANGED <<appData, currentSHA, isSyncing, isOffline, pendingSyncQueue, token, lsQueue,
                       lsBackup, remote, procs, fetches, resuming, clock, cap, lsTabs, returned,
                       initPc, providerVars, pollVars, errorLog>>
    ELSE
        /\ i \in 1..Len(appData.tabs.items)
        /\ DocUpdate(SetField(appData, "tabs", Value("array", RemoveTab(appData.tabs.items, i))), resp)

TabsInit ==
    /\ DocInitAt("fetch")
    /\ localServer = FALSE

TabsNext ==
    \/ \E resp \in FetchResponses : DocFetch(resp)
    \/ \E resp \in DocResponses : InitDefaultTab(resp)
    \/ \E resp \in DocResponses : AddTab(resp)
    \/ \E i \in 1..(MaxTabs + 1), resp \in DocResponses : DeleteTab(i, resp)
    \/ DocRestart

SpecTabs == TabsInit /\ [][TabsNext]_vars

\* ======================= the tasks of a day =======================
\* dateEntries holds one string per day, one character per task of that day:
\* 'P' a priority task, 'T' another task, 'p' and 't' the same when completed.
\* The page runs without a token (local-only operation), so that the
\* updateDataToGitHub of each handler ends at its local backup.  day is the
\* current date of the page, which changeDate moves freely.

\* ---- bounds of the tasks ----
\* days with an entry
MaxDays == 2
\* tasks in the document
MaxTasks == 4

\* if (priorityCount >= 3)
MaxPriority == 3

Days == 1..MaxDays

Task(priority, completed) ==
    IF priority THEN (IF completed THEN 112 ELSE 80) ELSE (IF completed THEN 116 ELSE 84)
IsPriority(task) == task \in {Task(TRUE, FALSE), Task(TRUE, TRUE)}
IsCompleted(task) == task \in {Task(FALSE, TRUE), Task(TRUE, TRUE)}

\* getDateEntry(dateKey).tasks: the entry is made empty when it is missing
TasksOf(ad, day) ==
    IF day \in DOMAIN ad.dateEntries.items THEN ad.dateEntries.items[day] ELSE <<>>

\* dateEntry.tasks.filter(t => t.priority).length
PriorityCount(tasks) == Cardinality({i \in DOMAIN tasks : IsPriority(tasks[i])})

AllTasks(ad) == Cardinality({<<day, i>> \in Days \X (1..MaxTasks) : i \in DOMAIN TasksOf(ad, day)})

\* tasks.splice(index, 1) / tasks.splice(index, 0, task), positions from 1
Splice(tasks, index) == SubSeq(tasks, 1, index - 1) \o SubSeq(tasks, index + 1, Len(tasks))
Insert(tasks, index, task) ==
    SubSeq(tasks, 1, index - 1) \o <<task>> \o SubSeq(tasks, index, Len(tasks))

\* appData.dateEntries[dateKey] = entry for each day of changed
WithTasks(ad, changed) ==
    SetField(ad, "dateEntries",
             Value("object", [d \in Days |-> IF d \in DOMAIN changed THEN changed[d] ELSE TasksOf(ad, d)]))

\* saveDateEntry(dateKey, dateEntry): the entry is stored and updateDataToGitHub called
saveDateEntry(day, tasks) == DocUpdate(WithTasks(appData, [d \in {day} |-> tasks]), "ok")

addTask(day) ==
    /\ AllTasks(appData) < MaxTasks
    /\ saveDateEntry(day, Append(TasksOf(appData, day), Task(FALSE, FALSE)))

toggleTask(day, index, isCompleted) ==
    LET tasks == TasksOf(appData, day)
    IN  /\ index \in DOMAIN tasks
        /\ saveDateEntry(day, [tasks EXCEPT ![index] = Task(IsPriority(@), isCompleted)])

deleteTask(day, index) ==
    /\ index \in DOMAIN TasksOf(appData, day)
    /\ saveDateEntry(day, Splice(TasksOf(appData, day), index))

toggleTaskPriority(day, index) ==
    LET tasks == TasksOf(appData, day)
    IN  /\ index \in DOMAIN tasks
        /\ IF ~IsPriority(tasks[index]) /\ PriorityCount(tasks) >= MaxPriority THEN
                /\ initPc = "none"
                /\ lastOp' = Op("showError", "none", "You can only have 3 priority tasks at a time")
                /\ UNCHANGED <<appData, currentSHA, isSyncing, isOffline, pendingSyncQueue, token,
                               lsQueue, lsBackup, remote, procs, fetches, resuming, clock, cap,
                               lsTabs, returned, initPc, providerVars, pollVars, errorLog>>
           ELSE saveDateEntry(day, [tasks EXCEPT ![index] = Task(~IsPriority(@), IsCompleted(@))])

\* handleDrop: the dragged task is taken out and put in at the target's place
handleDrop(day, draggedTaskIndex, targetTaskIndex) ==
    LET tasks == TasksOf(appData, day)
        adjustedTargetIndex ==
            IF targetTaskIndex > draggedTaskIndex THEN targetTaskIndex - 1 ELSE targetTaskIndex
    IN  /\ draggedTaskIndex \in DOMAIN tasks /\ targetTaskIndex \in DOMAIN tasks
        /\ draggedTaskIndex # targetTaskIndex
        /\ saveDateEntry(day, Insert(Splice(tasks, draggedTaskIndex), adjustedTargetIndex,
                                     tasks[draggedTaskIndex]))

\* shiftTaskDate: a copy of the task is pushed to the target day, the task
\* is taken out of the source day, one updateDataToGitHub
shiftTaskDate(day, index, direction) ==
    LET tasks == TasksOf(appData, day)
        targetDay == day + direction
    IN  /\ index \in DOMAIN tasks
        /\ targetDay \in Days
        /\ DocUpdate(WithTasks(appData, [d \in {day, targetDay} |->
                        IF d = day THEN Splice(tasks, index)
                        ELSE Append(TasksOf(appData, targetDay), tasks[index])]), "ok")

LocalOnlyInit ==
    /\ DocInit
    /\ ~token
    /\ ~localServer
    /\ remote.content = PutContent(EmptyDocument)

TasksNext ==
    \/ \E day \in Days : addTask(day)
    \/ \E day \in Days, index \in 1..MaxTasks, isCompleted \in BOOLEAN : toggleTask(day, index, isCompleted)
    \/ \E day \in Days, index \in 1..MaxTasks : deleteTask(day, index)
    \/ \E day \in Days, index \in 1..MaxTasks : toggleTaskPriority(day, index)
    \/ \E day \in Days, from \in 1..MaxTasks, to \in 1..MaxTasks : handleDrop(day, from, to)
    \/ \E day \in Days, index \in 1..MaxTasks, direction \in {-1, 1} : shiftTaskDate(day, index, direction)

SpecTasks == LocalOnlyInit /\ [][TasksNext]_vars

\* ======================= data retention =======================
\* Here dateEntries holds its keys in the order of Object.keys, a key
\* 'YYYY-MM-DD' being one character whose code is the number of the day.
\* A Date is a day and an hour of that day, in local time.

\* DATA_RETENTION = { daysBack: 5, daysForward: 5 }
daysBack == 5
daysForward == 5

\* ---- bounds of the retention ----
\* entries of dateEntries
MaxEntries == 2
\* the last hour of a day at which the cleanup runs
MaxHour == 1

\* the days of the keys, and the instants at which the cleanup runs: each key is
\* inside the window, on one of its boundaries or outside on either side
DateKeys == 1..(daysBack + daysForward + 4)
Today == {daysBack + 2, daysBack + 3}
Instants24 == [day : Today, hour : 0..MaxHour]

\* date comparison a <= b
NotAfter(a, b) == a.day < b.day \/ (a.day = b.day /\ a.hour <= b.hour)

\* faulty variant: today keeps its time of day (no setHours(0, 0, 0, 0))
getRetentionDateRangeNoReset(now) ==
    [startDate |-> [now EXCEPT !.day = @ - daysBack],
     endDate |-> [now EXCEPT !.day = @ + daysForward]]

\* getRetentionDateRange: today at 00:00, minus daysBack and plus daysForward days
getRetentionDateRange(now) ==
    LET today == [now EXCEPT !.hour = 0]
    IN  [startDate |-> [today EXCEPT !.day = @ - daysBack],
         endDate |-> [today EXCEPT !.day = @ + daysForward]]

\* isWithinRetentionWindow: new Date(dateKey + 'T00:00:00') is the local midnight
\* of the key; date >= startDate && date <= endDate
isWithinRetentionWindow(dateKey, now) ==
    LET range == getRetentionDateRange(now)
        date == [day |-> dateKey[1], hour |-> 0]
    IN  NotAfter(range.startDate, date) /\ NotAfter(date, range.endDate)

\* cleanupOldEntries: the keys outside the window are deleted; returns their number
cleanupOldEntries(ad, now) ==
    IF ~Truthy(ad.dateEntries) THEN [data |-> ad, removed |-> 0]
    ELSE LET Outside(dateKey) == ~isWithinRetentionWindow(dateKey, now)
             Within(dateKey) == isWithinRetentionWindow(dateKey, now)
             removedKeys == SelectSeq(ad.dateEntries.items, Outside)
         IN  [data |-> SetField(ad, "dateEntries",
                                Value("object", SelectSeq(ad.dateEntries.items, Within))),
              removed |-> Len(removedKeys)]

\* getDateEntry(dateKey) makes the entry of a day, saveDateEntry stores it
AddEntry(day) ==
    /\ Len(appData.dateEntries.items) < MaxEntries
    /\ \A i \in DOMAIN appData.dateEntries.items : appData.dateEntries.items[i] # <<day>>
    /\ DocUpdate(SetField(appData, "dateEntries",
                          Value("object", Append(appData.dateEntries.items, <<day>>))), "ok")

\* schedulePeriodicCleanup, at startup and each hour: cleanupOldEntries, and
\* updateDataToGitHub if entries were removed
Cleanup(now) ==
    LET result == cleanupOldEntries(appData, now)
    IN  IF result.removed > 0 THEN DocUpdate(result.data, "ok")
        ELSE /\ initPc = "none"
             /\ lastOp' = Op("cleanup", "none", "none")
             /\ UNCHANGED <<appData, currentSHA, isSyncing, isOffline, pendingSyncQueue, token,
                            lsQueue, lsBackup, remote, procs, fetches, resuming, clock, cap,
                            lsTabs, returned, initPc, providerVars, pollVars, errorLog>>

RetentionNext ==
    \/ \E day \in DateKeys : AddEntry(day)
    \/ \E now \in Instants24 : Cleanup(now)

SpecRetention == LocalOnlyInit /\ [][RetentionNext]_vars

\* ======================= the sync providers =======================
\* One instance of each provider class, used by a page that may call a method
\* again before an earlier call has returned.  An action is what a method does
\* between two awaits; calls holds the calls suspended at their fetch().

\* this.cacheTimeout = 5000
cacheTimeout == 5000
\* this.lastFetchTime = null (falsy, as no value of Date.now() is)
NullTime == 0

\* ---- bounds of the providers ----
\* cache windows that pass in one behaviour
MaxWindows == 2

\* the instants at which Date.now() is read: the start of each window and the
\* millisecond after the first
Instants == {k * cacheTimeout : k \in 1..MaxWindows} \cup {cacheTimeout + 1}

\* file IDs: none, the default of the constructor, another file
DefaultFileId == "1AzW"
FileIds == {"", DefaultFileId, "test"}
\* the content of the shared file of each ID (UTF-8 bytes of a JSON object)
DriveFile(id) ==
    PutContent(Document(<<>>, IF id = DefaultFileId THEN <<<<65>>>> ELSE <<<<233>>>>, <<>>))

DrivePublicName == "google-drive-public"
TokenProviders == {"dropbox", "google-drive"}
Providers == TokenProviders \cup {DrivePublicName}

\* new GoogleDrivePublicSyncProvider(): the file ID is the stored one or the default
DrivePublicConstructor(stored) ==
    [fileId |-> IF stored = None \/ stored[1] = "" THEN DefaultFileId ELSE stored[1],
     lastFetchTime |-> NullTime,
     fetchCache |-> None,
     isAvailable |-> FALSE]

\* new DropboxSyncProvider() / new GoogleDriveSyncProvider(): the token is the
\* stored one or ''; this.fileRev = null (the rev is Dropbox's, the field stays
\* null in the Google Drive provider)
TokenConstructor(accessToken) ==
    [accessToken |-> accessToken, isAvailable |-> FALSE, fileRev |-> None]

\* a call suspended at its fetch(): the method called, the file ID in its
\* download URL and its const now
Call(provider, op, fileId, start) ==
    [provider |-> provider, op |-> op, fileId |-> fileId, start |-> start]

\* a JavaScript boolean as the value a method returns
Bool(b) == [type |-> "boolean", value |-> b]

\* history record of a provider method that returns or throws
ProviderOp(provider, op, outcome, cause, fileId) ==
    [op |-> op, outcome |-> outcome, cause |-> cause, provider |-> provider, fileId |-> fileId]

\* the providers as constructed; tokens: the access tokens that may be stored
ProviderInit(maxCalls, tokens) ==
    /\ cap = maxCalls
    /\ appData = EmptyDocument
    /\ currentSHA = NullSHA
    /\ isSyncing = FALSE
    /\ isOffline = FALSE
    /\ pendingSyncQueue = <<>>
    /\ token = FALSE
    /\ lsQueue = None
    /\ lsBackup = None
    /\ remote = [content |-> PutContent(EmptyDocument), sha |-> NullSHA + 1]
    /\ procs = EmptyBag
    /\ fetches = 0
    /\ resuming = None
    /\ clock = 0
    /\ lastOp = Step
    /\ lsTabs = None
    /\ returned = None
    /\ initPc = "none"
    /\ lsFileId \in {None} \cup {Some(id) : id \in FileIds}
    /\ drivePublic = DrivePublicConstructor(lsFileId)
    /\ tokenProviders \in [TokenProviders -> {TokenConstructor(t) : t \in tokens}]
    /\ calls = EmptyBag
    /\ time = cacheTimeout
    /\ fresh = NullTime
    /\ isChecking = FALSE
    /\ polls = 0
    /\ errorLog = None
    /\ localServer = FALSE

\* what the providers leave alone
appVars == <<appData, currentSHA, isSyncing, isOffline, pendingSyncQueue, token, lsQueue,
             lsBackup, remote, procs, fetches, resuming, clock, cap, lsTabs, initPc,
             localServer, pollVars, errorLog>>

InFlight == BagToSet(calls)
Suspend(c) == calls (+) SetToBag({c})
Resume(c) == calls (-) SetToBag({c})

\* time passes
Tick(t) ==
    /\ t > time
    /\ time' = t
    /\ UNCHANGED <<drivePublic, tokenProviders, lsFileId, calls, fresh, lastOp, returned, appVars>>

\* faulty variant: the failure branch returns false and leaves isAvailable
UnavailableKept(st) == st

\* this.isAvailable = false, before return false
Unavailable(st) == [st EXCEPT !.isAvailable = FALSE]

\* ---- GoogleDrivePublicSyncProvider ----
\* fetchData, lines 385-386: the cache is fresh
CacheHit(dp, t) ==
    dp.fetchCache # None /\ dp.lastFetchTime # NullTime /\ t - dp.lastFetchTime < cacheTimeout

\* fetchData, lines 410-467 on the response of the call: the validated document
Downloaded(c) == DrivePublicFetchData(DriveFile(c.fileId))

\* fetchData, lines 472-473: this.fetchCache = data; this.lastFetchTime = now
UpdateCache(dp, c) == [dp EXCEPT !.fetchCache = Some(Downloaded(c)), !.lastFetchTime = c.start]

\* the responses of a download: the file, or an error status, HTML, a timeout
DownloadResponses == {"ok", "failed"}

\* fetchData() up to its return from the cache or its fetch()
FetchDataCall ==
    /\ IF CacheHit(drivePublic, time) THEN
            /\ returned' = drivePublic.fetchCache
            /\ lastOp' = ProviderOp(DrivePublicName, "fetchData", "ok", "cache", drivePublic.fileId)
            /\ UNCHANGED calls
       ELSE
            /\ BagCardinality(calls) < cap
            /\ calls' = Suspend(Call(DrivePublicName, "fetchData", drivePublic.fileId, time))
            /\ lastOp' = Step
            /\ UNCHANGED returned
    /\ UNCHANGED <<drivePublic, tokenProviders, lsFileId, time, fresh, appVars>>

\* fetchData() from the response of its fetch() to its return or throw
FetchDataResponse(c, resp) ==
    /\ c.provider = DrivePublicName /\ c.op = "fetchData"
    /\ resp = "ok" => c.fileId # ""
    /\ calls' = Resume(c)
    /\ IF resp = "ok" THEN
            /\ drivePublic' = UpdateCache(drivePublic, c)
            /\ fresh' = IF c.start > fresh THEN c.start ELSE fresh
            /\ returned' = Some(Downloaded(c))
            /\ lastOp' = ProviderOp(DrivePublicName, "fetchData", "ok", "network", c.fileId)
       ELSE
            /\ returned' = None
            /\ lastOp' = ProviderOp(DrivePublicName, "fetchData", "threw", "network", c.fileId)
            /\ UNCHANGED <<drivePublic, fresh>>
    /\ UNCHANGED <<tokenProviders, lsFileId, time, appVars>>

\* the documents and labels passed to updateData
UpdateInputs == {EmptyDocument, Document(<<>>, DefaultTab, <<>>)}
UpdateLabels == {"Update data", "Save"}

\* faulty variant: a refused update marks the provider unavailable
UpdateDataUnavailable(data, message) ==
    /\ drivePublic' = [drivePublic EXCEPT !.isAvailable = FALSE]
    /\ returned' = Some(Bool(FALSE))
    /\ lastOp' = ProviderOp(DrivePublicName, "updateData", "false", "none", "")
    /\ UNCHANGED <<tokenProviders, lsFileId, calls, time, fresh, appVars>>

\* updateData(data, message): two warnings, return false
UpdateData(data, message) ==
    /\ returned' = Some(Bool(FALSE))
    /\ lastOp' = ProviderOp(DrivePublicName, "updateData", "false", "none", "")
    /\ UNCHANGED <<drivePublic, tokenProviders, lsFileId, calls, time, fresh, appVars>>

\* clearCache()
clearCache(dp) == [dp EXCEPT !.fetchCache = None, !.lastFetchTime = NullTime]

ClearCache ==
    /\ drivePublic' = clearCache(drivePublic)
    /\ fresh' = NullTime
    /\ lastOp' = ProviderOp(DrivePublicName, "clearCache", "returned", "none", "")
    /\ UNCHANGED <<tokenProviders, lsFileId, calls, time, returned, appVars>>

\* setFileId(fileId): store the ID in the provider and in localStorage, clearCache()
SetFileId(fileId) ==
    /\ drivePublic' = clearCache([drivePublic EXCEPT !.fileId = fileId])
    /\ lsFileId' = Some(fileId)
    /\ fresh' = NullTime
    /\ lastOp' = ProviderOp(DrivePublicName, "setFileId", "returned", "none", fileId)
    /\ UNCHANGED <<tokenProviders, calls, time, returned, appVars>>

\* ---- checkAvailability ----
\* checkAvailability of the public provider, lines 357-361
IsValid(testData) == FieldNames \subseteq DOMAIN testData

\* the state of a provider and the credential its checkAvailability tests
StateOf(p) == IF p = DrivePublicName THEN drivePublic ELSE tokenProviders[p]
Credential(p) == IF p = DrivePublicName THEN drivePublic.fileId ELSE tokenProviders[p].accessToken

\* the provider's state becomes st
SetState(p, st) ==
    IF p = DrivePublicName
    THEN drivePublic' = st /\ UNCHANGED tokenProviders
    ELSE tokenProviders' = [tokenProviders EXCEPT ![p] = st] /\ UNCHANGED drivePublic

\* checkAvailability() up to its return or its fetch(); the public provider
\* probes with fetchData(), which may answer from the cache
CheckAvailabilityCall(p) ==
    /\ IF Credential(p) = "" THEN
            /\ SetState(p, Unavailable(StateOf(p)))
            /\ returned' = Some(Bool(FALSE))
            /\ lastOp' = ProviderOp(p, "checkAvailability", "false", "nocredential", "")
            /\ UNCHANGED calls
       ELSE IF p = DrivePublicName /\ CacheHit(drivePublic, time) THEN
            /\ SetState(p, [drivePublic EXCEPT !.isAvailable = IsValid(drivePublic.fetchCache[1])])
            /\ returned' = Some(Bool(IsValid(drivePublic.fetchCache[1])))
            /\ lastOp' = ProviderOp(p, "checkAvailability",
                                    IF IsValid(drivePublic.fetchCache[1]) THEN "true" ELSE "false",
                                    "cache", "")
            /\ UNCHANGED calls
       ELSE
            /\ BagCardinality(calls) < cap
            /\ calls' = Suspend(IF p = DrivePublicName
                                 THEN Call(p, "checkAvailability", drivePublic.fileId, time)
                                 ELSE Call(p, "checkAvailability", "", NullTime))
            /\ lastOp' = Step
            /\ UNCHANGED <<drivePublic, tokenProviders, returned>>
    /\ UNCHANGED <<lsFileId, time, fresh, appVars>>

\* the responses of a probe: response.ok, an error status, fetch() rejects
ProbeResponses == {"ok", "failed", "neterr"}

\* checkAvailability() from the response of its probe to its return
CheckAvailabilityResponse(c, resp) ==
    /\ c.op = "checkAvailability"
    /\ (c.provider = DrivePublicName /\ resp = "ok") => c.fileId # ""
    /\ calls' = Resume(c)
    /\ IF resp = "ok" THEN
            /\ IF c.provider = DrivePublicName
               THEN /\ SetState(c.provider, [UpdateCache(drivePublic, c) EXCEPT
                                                !.isAvailable = IsValid(Downloaded(c))])
                    /\ fresh' = IF c.start > fresh THEN c.start ELSE fresh
                    /\ returned' = Some(Bool(IsValid(Downloaded(c))))
               ELSE /\ SetState(c.provider, [StateOf(c.provider) EXCEPT !.isAvailable = TRUE])
                    /\ UNCHANGED fresh
                    /\ returned' = Some(Bool(TRUE))
            /\ lastOp' = ProviderOp(c.provider, "checkAvailability",
                                    IF returned'[1].value THEN "true" ELSE "false", "ok", "")
       ELSE
            /\ SetState(c.provider, Unavailable(StateOf(c.provider)))
            /\ returned' = Some(Bool(FALSE))
            /\ lastOp' = ProviderOp(c.provider, "checkAvailability", "false", resp, "")
            /\ UNCHANGED fresh
    /\ UNCHANGED <<lsFileId, time, appVars>>

\* ---- specifications of the providers ----
\* the public provider: fetches, the cache, the file ID, its probe
DriveNext ==
    \/ \E t \in Instants : Tick(t)
    \/ FetchDataCall
    \/ \E c \in InFlight, resp \in DownloadResponses : FetchDataResponse(c, resp)
    \/ \E data \in UpdateInputs, message \in UpdateLabels : UpdateData(data, message)
    \/ ClearCache
    \/ \E fileId \in FileIds : SetFileId(fileId)
    \/ CheckAvailabilityCall(DrivePublicName)
    \/ \E c \in InFlight, resp \in ProbeResponses : CheckAvailabilityResponse(c, resp)

SpecDrive == ProviderInit(MaxProcs, {""}) /\ [][DriveNext]_vars

\* the same with calls that overlap
SpecDriveOverlap == ProviderInit(MaxOverlap, {""}) /\ [][DriveNext]_vars

\* the probes of the three providers, the file ID changed in between
AvailabilityNext ==
    \/ \E t \in Instants : Tick(t)
    \/ \E fileId \in FileIds : SetFileId(fileId)
    \/ \E p \in Providers : CheckAvailabilityCall(p)
    \/ \E c \in InFlight, resp \in ProbeResponses : CheckAvailabilityResponse(c, resp)

SpecAvailability == ProviderInit(MaxProcs, {"", "token"}) /\ [][AvailabilityNext]_vars

\* ======================= the Dropbox file =======================
\* DropboxSyncProvider on its file /daily-board/data.json, one call at a time,
\* and a second writer of the same file.  Here remote is the file: its bytes and
\* its rev (sha), a new rev with every upload the server accepts.

\* fetchData(): download, record the rev of the Dropbox-API-Result header,
\* return response.json(); 409: the empty structure; another status: throw
DropboxFetch(resp) ==
    /\ IF tokenProviders["dropbox"].accessToken = "" THEN
            /\ returned' = None
            /\ lastOp' = ProviderOp("dropbox", "fetchData", "threw", "nocredential", "")
            /\ UNCHANGED tokenProviders
       ELSE IF resp = "ok" THEN
            /\ tokenProviders' = [tokenProviders EXCEPT !["dropbox"].fileRev = Some(remote.sha)]
            /\ returned' = Some(DropboxFetchData(remote.content))
            /\ lastOp' = ProviderOp("dropbox", "fetchData", "ok", "network", "")
       ELSE
            /\ returned' = IF resp = "notfound" THEN Some(EmptyDocument) ELSE None
            /\ lastOp' = ProviderOp("dropbox", "fetchData",
                                    IF resp = "notfound" THEN "ok" ELSE "threw", resp, "")
            /\ UNCHANGED tokenProviders
    /\ UNCHANGED <<drivePublic, lsFileId, calls, time, fresh, appVars>>

\* updateData(data): upload with mode 'overwrite' and no rev; the server
\* replaces the file whatever its rev; record the rev of the answer, return true;
\* a status that is not ok: throw
DropboxUpdate(data, resp) ==
    /\ IF tokenProviders["dropbox"].accessToken = "" THEN
            /\ returned' = None
            /\ lastOp' = ProviderOp("dropbox", "updateData", "threw", "nocredential", "")
            /\ UNCHANGED <<tokenProviders, remote>>
       ELSE IF resp = "ok" THEN
            /\ remote.sha <= MaxRev
            /\ remote' = [content |-> PutContent(data), sha |-> remote.sha + 1]
            /\ tokenProviders' = [tokenProviders EXCEPT !["dropbox"].fileRev = Some(remote'.sha)]
            /\ returned' = Some(Bool(TRUE))
            /\ lastOp' = ProviderOp("dropbox", "updateData", "true", "network", "")
       ELSE
            /\ returned' = None
            /\ lastOp' = ProviderOp("dropbox", "updateData", "threw", resp, "")
            /\ UNCHANGED <<tokenProviders, remote>>
    /\ UNCHANGED <<appData, currentSHA, isSyncing, isOffline, pendingSyncQueue, token, lsQueue,
                   lsBackup, procs, fetches, resuming, clock, cap, lsTabs, initPc,
                   drivePublic, lsFileId, localServer, calls, time, fresh, pollVars, errorLog>>

\* a second writer uploads document d: the file has a new rev
DropboxOtherWrite(d) ==
    /\ remote.sha <= MaxRev
    /\ PutContent(d) # remote.content
    /\ remote' = [content |-> PutContent(d), sha |-> remote.sha + 1]
    /\ lastOp' = Step
    /\ UNCHANGED <<appData, currentSHA, isSyncing, isOffline, pendingSyncQueue, token, lsQueue,
                   lsBackup, procs, fetches, resuming, clock, cap, lsTabs, initPc, returned,
                   providerVars, pollVars, errorLog>>

DropboxNext ==
    \/ \E resp \in {"ok", "notfound", "failed"} : DropboxFetch(resp)
    \/ \E data \in UpdateInputs, resp \in {"ok", "failed"} : DropboxUpdate(data, resp)
    \/ \E d \in UpdateInputs : DropboxOtherWrite(d)

SpecDropbox == ProviderInit(MaxProcs, {"", "token"}) /\ [][DropboxNext]_vars

\* ======================= the poll scheduler =======================
\* The recurring timer of the remote-change check, next to the write path and
\* the offline queue.

\* faulty variant: the tick does not test whether a check is under way
PollBusyNoFlag == isOffline \/ isSyncing

\* a tick is skipped when offline, mid-write or mid-check
PollBusy == isOffline \/ isSyncing \/ isChecking

\* the timer fires: skip, or start the remote-change check
PollTick ==
    /\ ~Busy
    /\ IF PollBusy THEN
            /\ lastOp' = Op("poll", "skipped", "none")
            /\ UNCHANGED pollVars
       ELSE
            /\ polls < MaxOverlap
            /\ isChecking' = TRUE
            /\ polls' = polls + 1
            /\ lastOp' = Op("poll", "started", "none")
    /\ UNCHANGED <<appData, currentSHA, isSyncing, isOffline, pendingSyncQueue, token, lsQueue,
                   lsBackup, remote, procs, fetches, resuming, clock, cap, lsTabs, returned,
                   initPc, providerVars, errorLog>>

\* the check answers: a remote version that differs from the local one replaces
\* the in-memory document wholesale; the flag is cleared
PollResponse(resp) ==
    /\ ~Busy
    /\ polls > 0
    /\ polls' = polls - 1
    /\ isChecking' = FALSE
    /\ IF resp = "ok" /\ SHA(remote) # currentSHA THEN
            /\ appData' = remote
            /\ currentSHA' = SHA(remote)
            /\ pendingSyncQueue' = UnshareQueue(pendingSyncQueue)
            /\ procs' = UnshareItems(procs)
       ELSE UNCHANGED <<appData, currentSHA, pendingSyncQueue, procs>>
    /\ lastOp' = Op("poll", IF resp = "ok" THEN "done" ELSE "failed", "none")
    /\ UNCHANGED <<isSyncing, isOffline, token, lsQueue, lsBackup, remote, fetches, resuming,
                   clock, cap, lsTabs, returned, initPc, providerVars, errorLog>>

NextPoll ==
    \/ NextQueue
    \/ PollTick
    \/ \E resp \in Responses : PollResponse(resp)

SpecPoll == Init /\ [][NextPoll]_vars

\* ======================= the error log =======================
\* logError and the failure paths that call it.  An entry is identified by its
\* timestamp: logError reads the clock, which ticks once per entry.

\* failures in one behaviour
MaxFailures == 52

\* "Keep only last 50 errors"
MaxErrors == 50

\* logError: errorArray = stored log or []; push; slice(-50) when longer; setItem
logError(log, now) ==
    LET errorArray == (IF log = None THEN <<>> ELSE log[1]) \o <<now>>
    IN  Some(IF Len(errorArray) > MaxErrors
             THEN SubSeq(errorArray, Len(errorArray) - MaxErrors + 1, Len(errorArray))
             ELSE errorArray)

\* the functions whose failure path calls logError: fetchDataFromGitHub (catch),
\* updateDataToGitHub (catch), checkRemoteSHA (both failure paths)
LoggingFunctions == {"fetchDataFromGitHub", "updateDataToGitHub", "checkRemoteSHA"}

\* the state that a failure path leaves alone in this section
logUnchanged == <<appData, currentSHA, isSyncing, isOffline, pendingSyncQueue, token, lsQueue,
                  lsBackup, remote, procs, fetches, resuming, cap, lsTabs, returned, initPc,
                  providerVars, pollVars>>

\* a request of one of these functions fails
FailureLogged(context) ==
    /\ clock < MaxFailures
    /\ clock' = clock + 1
    /\ errorLog' = logError(errorLog, clock')
    /\ lastOp' = Op("failure", context, "none")
    /\ UNCHANGED logUnchanged

\* createBackup fails (response not ok, or fetch throws): console.error; return false
CreateBackupFails ==
    /\ lastOp' = Op("failure", "createBackup", "none")
    /\ UNCHANGED <<errorLog, clock>>
    /\ UNCHANGED logUnchanged

\* clearErrorLog: localStorage.removeItem('dailyBoard_errorLog')
ClearErrorLog ==
    /\ errorLog # None
    /\ errorLog' = None
    /\ lastOp' = Op("clearErrorLog", "none", "none")
    /\ UNCHANGED clock
    /\ UNCHANGED logUnchanged

LogNext ==
    \/ \E context \in LoggingFunctions : FailureLogged(context)
    \/ CreateBackupFails
    \/ ClearErrorLog

SpecLog == Init /\ [][LogNext]_vars

\* ======================= properties =======================
RequestSent(pr) == pr.pc \in {"createBackup", "refreshSHA", "put"}
\* the requests in flight, whatever the invocations' local data
Pcs(ps) ==
    LET P(pr) == pr.pc
    IN  BagOfAll(P, ps)

\* C1: an invocation whose checkRemoteSHA returned a remote SHA different from a
\* non-null currentSHA shows the conflict dialog, and goes on to the backup PUT,
\* the SHA refresh and the data.json PUT only after the user chose force-save.
C1_ConflictPrompted ==
    \A pr \in Running :
        pr.conflict =>
            /\ pr.pc = "confirm" \/ pr.choice # "none"
            /\ RequestSent(pr) => pr.choice = "force"

C1_Witness == \E pr \in Running : pr.conflict /\ pr.choice = "force" /\ pr.pc = "put"

\* C2: this client's PUT never replaces a revision that the second writer put
\* on the remote during the call, unless the user saw the dialog and chose force-save.
C2_NoSilentOverwrite == ~(lastOp.op = "updateReturn" /\ lastOp.outcome = "ok" /\ lastOp.cause = "silent")

\* C3: an update called while offline appends exactly one entry {operation,
\* timestamp, data = appData} to the tail of the queue, as a deep copy that no
\* later step changes, persists the whole queue and the local backup, starts no
\* request and leaves isSyncing and currentSHA alone.
OfflineCall ==
    /\ isOffline
    /\ \/ \E d \in Docs : UserEdit(d)
       \/ ReplayStep /\ Len(pendingSyncQueue) > 0

EntriesKeepData ==
    \A i \in 1..Len(pendingSyncQueue), j \in 1..Len(pendingSyncQueue') :
        pendingSyncQueue[i].timestamp = pendingSyncQueue'[j].timestamp
            => pendingSyncQueue[i].data = pendingSyncQueue'[j].data

OfflineCallEffect ==
    LET q0 == IF resuming # None THEN Tail(pendingSyncQueue) ELSE pendingSyncQueue
        operation == IF resuming # None THEN Head(pendingSyncQueue).operation ELSE "Update"
        q1 == pendingSyncQueue'
    IN  /\ Len(q1) = Len(q0) + 1
        /\ StringifyQueue(SubSeq(q1, 1, Len(q0))) = StringifyQueue(q0)
        /\ StringifyEntry(q1[Len(q1)]) = [operation |-> operation, timestamp |-> clock', data |-> appData']
        /\ lsQueue' = Some(StringifyQueue(q1))
        /\ lsBackup' = Some(appData')
        /\ isSyncing' = isSyncing
        /\ currentSHA' = currentSHA
        /\ Pcs(procs') = Pcs(procs)
        /\ fetches' = fetches

C3_OfflineEnqueue == [][(OfflineCall => OfflineCallEffect) /\ EntriesKeepData]_vars

C3_Witness ==
    /\ isOffline
    /\ lastOp.outcome = "queued"
    /\ Len(pendingSyncQueue) = 2
    /\ pendingSyncQueue[2].data = appData
    /\ pendingSyncQueue[1].data # appData

\* C4: replay is strict FIFO: while the write attempt for a queued entry has not
\* completed, no write attempt has been started for another entry.
C4_ReplayFifo ==
    \A pr \in Running :
        pr.caller = "replay" =>
            /\ resuming = None \/ resuming[1].item = NoItem
            /\ \A other \in Running : other.caller = "replay" => other = pr /\ CopiesIn(pr, procs) = 1

\* C5: when the replayed write of entry A failed, A goes back to the head of the
\* queue, the replay stops without attempting a later entry, and the persisted
\* queue holds A followed by the rest.
C5_FailedReplayRequeues ==
    [][(resuming # None /\ resuming[1].outcome \in {"failed", "threw"}) =>
            /\ resuming' = None
            /\ StringifyQueue(pendingSyncQueue') = StringifyQueue(<<resuming[1].item>> \o pendingSyncQueue)
            /\ lsQueue' = Some(StringifyQueue(pendingSyncQueue'))
            /\ Pcs(procs') = Pcs(procs)]_vars

\* C6: a write that fails on a network error while isOffline is
\* false appends a Pending Operation to the queue, to be retried on reconnection.
NetworkFailure ==
    /\ ~isOffline
    /\ \E pr \in Running : RefreshSHAResponse(pr, "neterr") \/ PutResponse(pr, "neterr")

C6_FailedWriteQueued ==
    [][NetworkFailure => Len(pendingSyncQueue') = Len(pendingSyncQueue) + 1]_vars

\* C7: an update called while online and isSyncing is true returns normally and
\* changes nothing: no request, no queue entry, currentSHA, isSyncing, appData
\* and the local backup as they were.
OnlineCallWhileSyncing ==
    /\ ~isOffline
    /\ isSyncing
    /\ \/ \E d \in Docs : UserEdit(d)
       \/ ManualSave
       \/ Refresh

C7_SkipChangesNothing ==
    [][OnlineCallWhileSyncing =>
            /\ pendingSyncQueue' = pendingSyncQueue
            /\ lsQueue' = lsQueue
            /\ lsBackup' = lsBackup
            /\ isSyncing' = isSyncing
            /\ currentSHA' = currentSHA
            /\ (ManualSave \/ Refresh) => appData' = appData
            /\ Pcs(procs') = Pcs(procs)
            /\ lastOp'.op = "updateReturn"
            /\ lastOp'.outcome = "skipped"]_vars

C7_Witness ==
    /\ ~isOffline
    /\ isSyncing
    /\ lastOp.outcome = "skipped"
    /\ lsBackup # Some(appData)

\* C8: at most one invocation is between the isSyncing guard and the end of its
\* remote requests.
C8_WritesSerialized ==
    BagCardinality(procs) - CopiesIn("confirm", Pcs(procs)) - CopiesIn("conflictFetch", Pcs(procs)) <= 1

\* C9: after a successful fetch and after an accepted PUT the local backup is
\* the current appData.
C9_BackupAfterSuccess ==
    (lastOp.outcome = "ok" /\ lastOp.op \in {"fetchReturn", "updateReturn"}) => lsBackup = Some(appData)

\* C10: when an update ends in failure the local backup is appData, and the
\* call returned to its caller (it did not throw).
C10_FailureKeepsBackup ==
    (lastOp.op = "updateReturn" /\ lastOp.outcome \in {"failed", "threw"}) =>
        /\ lsBackup = Some(appData)
        /\ lastOp.outcome = "failed"

C10_Witness ==
    /\ lastOp.op = "updateReturn" /\ lastOp.outcome = "failed" /\ lastOp.cause = "UPDATE_FAILED"
    /\ lsBackup = Some(appData)
    /\ remote # appData

\* C11: a fetch that fails returns a value (it does not throw): the document of
\* the local backup, or the empty document when there is no backup, with the
\* three fields dateEntries, tabs and listItems.
C11_FetchFallsBackToBackup ==
    (lastOp.op = "fetchReturn" /\ lastOp.outcome = "failed") =>
        /\ returned # <<>>
        /\ FieldNames \subseteq DOMAIN returned[1]
        /\ returned = (IF lsBackup = <<>> THEN Some(EmptyDocument) ELSE lsBackup)

\* C12: with no token and the remote unreachable, after an update of D and a
\* restart, the fetch of initializeApp returns D and appData is D.
C12_LocalRoundTrip ==
    (/\ ~token
     /\ initPc = "tabs"
     /\ lastOp.op = "fetchReturn" /\ lastOp.cause = "neterr"
     /\ lsBackup # <<>>) =>
        /\ returned = lsBackup
        /\ appData = lsBackup[1]

\* C13: a fetch that succeeds right after an accepted write of appData = D, with
\* no other writer, returns D and leaves currentSHA at the SHA the write recorded.
C13_RemoteRoundTrip ==
    [][(lastOp.op = "updateReturn" /\ lastOp.outcome = "ok" /\ DocFetch("ok")) =>
            /\ returned' = Some(appData)
            /\ appData' = appData
            /\ currentSHA' = currentSHA]_vars

\* C14: for a remote JSON object missing any of dateEntries, tabs, listItems (the
\* fields present being of their type), the document a backend's fetch returns
\* has all three fields, the missing ones empty and the present ones unchanged.
WellTyped(obj) == \A f \in DOMAIN obj : obj[f].type = EmptyOf(f).type

C14_SchemaComplete ==
    (lastOp.op = "fetchReturn" /\ lastOp.cause \in Backends /\ WellTyped(remote.content)) =>
        /\ DOMAIN returned[1] = FieldNames
        /\ \A f \in FieldNames :
                returned[1][f] = (IF f \in DOMAIN remote.content THEN remote.content[f] ELSE EmptyOf(f))

\* C15: currentSHA changes only in the step that ends a successful fetch, together
\* with appData becoming the fetched document, or in the step that ends an
\* accepted PUT, to the SHA of what was put.
SuccessfulFetch ==
    /\ \/ FetchResponse("ok")
       \/ \E pr \in Running : ConflictFetchResponse(pr, "ok")
    /\ appData' = remote
    /\ currentSHA' = SHA(remote)

SuccessfulWrite ==
    \E pr \in Running :
        /\ PutResponse(pr, "ok")
        /\ currentSHA' = SHA(pr.putDoc)

C15_ShaChangesOnlyOnSuccess ==
    [][currentSHA' # currentSHA => (SuccessfulFetch \/ SuccessfulWrite)]_vars

\* C16: what an update call returns tells an accepted PUT from every other
\* outcome (queued, skipped, no token, failed request, refetched after a
\* conflict), and saveDataImmediately shows 'Data saved successfully!' only after
\* an accepted PUT.
C16_ResultTellsRemoteWrite ==
    (lastOp.op = "updateReturn" /\ lastOp.outcome # "ok") =>
        /\ lastOp.result # UpdateResult("ok")
        /\ lastOp.message # SavedMessage

\* C17: updateData of the public Google Drive provider, for every document and
\* label and in every state of the provider, returns false, does not throw,
\* issues no request and leaves the file ID, fetchCache, lastFetchTime and
\* isAvailable as they were.
C17_UpdateDataReadOnly ==
    [][(\E data \in UpdateInputs, message \in UpdateLabels : UpdateData(data, message)) =>
            /\ returned' = Some(Bool(FALSE))
            /\ lastOp'.op = "updateData" /\ lastOp'.outcome = "false"
            /\ calls' = calls
            /\ drivePublic' = drivePublic]_vars

\* updateData has returned while the cache is filled, the provider is available
\* and a fetch is in flight
C17_Witness ==
    /\ lastOp.op = "updateData"
    /\ drivePublic.fetchCache # None
    /\ drivePublic.lastFetchTime # NullTime
    /\ drivePublic.isAvailable
    /\ calls # EmptyBag

\* C18: once a fetchData that started at time t has succeeded, and until the
\* cache is cleared, a fetchData starting before t + 5000 ms returns the cached
\* document without a request and one starting at or after t + 5000 ms issues a
\* request; a failed fetch leaves fetchCache and lastFetchTime as they were.
C18_CacheWindow ==
    [][/\ (fresh # NullTime /\ FetchDataCall) =>
            IF time < fresh + cacheTimeout
            THEN /\ calls' = calls
                 /\ returned' = drivePublic.fetchCache
                 /\ lastOp'.op = "fetchData" /\ lastOp'.cause = "cache"
            ELSE calls' # calls
       /\ (\E c \in InFlight : FetchDataResponse(c, "failed")) =>
            /\ drivePublic'.fetchCache = drivePublic.fetchCache
            /\ drivePublic'.lastFetchTime = drivePublic.lastFetchTime]_vars

\* C19: setFileId(id) leaves the cache empty and id stored, and a fetchData
\* called under the file ID that is now set returns the document of that file,
\* never one downloaded under an earlier ID, a fetchData for the earlier ID
\* still in flight at the setFileId included.
C19_NoStaleDocument ==
    /\ lastOp.op = "setFileId" =>
            /\ drivePublic.fetchCache = None /\ drivePublic.lastFetchTime = NullTime
            /\ drivePublic.fileId = lastOp.fileId /\ lsFileId = Some(lastOp.fileId)
    /\ (lastOp.op = "fetchData" /\ lastOp.outcome = "ok" /\ lastOp.fileId = drivePublic.fileId) =>
            returned = Some(DrivePublicFetchData(DriveFile(drivePublic.fileId)))

\* isAvailable of provider p in the state (dp, tp)
IsAvailableOf(p, dp, tp) == IF p = DrivePublicName THEN dp.isAvailable ELSE tp[p].isAvailable

\* C20: checkAvailability of each provider does not throw; with an empty
\* credential or file ID it returns false and issues no request; when the probe
\* fails or fetch() rejects it returns false; and when it returns, isAvailable
\* of the provider is the value returned.
C20_CheckAvailability ==
    [][\A p \in Providers :
        /\ (Credential(p) = "" /\ CheckAvailabilityCall(p)) =>
                /\ calls' = calls
                /\ lastOp'.op = "checkAvailability" /\ lastOp'.outcome = "false"
                /\ returned' = Some(Bool(FALSE))
        /\ (\E c \in InFlight, resp \in ProbeResponses \ {"ok"} :
                    c.provider = p /\ CheckAvailabilityResponse(c, resp)) =>
                /\ lastOp'.op = "checkAvailability" /\ lastOp'.outcome = "false"
                /\ returned' = Some(Bool(FALSE))
        /\ (lastOp'.op = "checkAvailability" /\ lastOp'.provider = p) =>
                /\ lastOp'.outcome \in {"true", "false"}
                /\ returned' = Some(Bool(lastOp'.outcome = "true"))
                /\ IsAvailableOf(p, drivePublic', tokenProviders') = returned'[1].value]_vars

\* Dropbox's probe has just failed on a network error and left it unavailable,
\* after the probes of the other two providers found them available
C20_Witness ==
    /\ lastOp.op = "checkAvailability" /\ lastOp.provider = "dropbox"
    /\ lastOp.cause = "neterr"
    /\ returned = Some(Bool(FALSE))
    /\ ~tokenProviders["dropbox"].isAvailable
    /\ tokenProviders["google-drive"].isAvailable
    /\ drivePublic.isAvailable

\* C21: Dropbox's updateData presents the rev that fetchData recorded, so that an
\* upload made after a second writer changed the file fails with a version
\* conflict and leaves the second writer's content in place.
C21_DropboxVersionAware ==
    [][(/\ tokenProviders["dropbox"].fileRev # None
        /\ tokenProviders["dropbox"].fileRev # Some(remote.sha)
        /\ \E data \in UpdateInputs, resp \in {"ok", "failed"} : DropboxUpdate(data, resp)) =>
            /\ remote' = remote
            /\ lastOp'.outcome = "threw"]_vars

\* C22: a fetch whose remote file does not exist (GitHub answers the metadata
\* request with a status that is not ok, 404) returns the empty document as a
\* normal result: the fetch does not end in its error branch, which logs the
\* error and shows a message.
C22_MissingFileIsEmpty ==
    (lastOp.op = "fetchReturn" /\ lastOp.cause = "http") =>
        /\ lastOp.outcome = "ok"
        /\ returned = Some(EmptyDocument)

\* C23: the first available backend in the order local server, Dropbox, public
\* Drive file, Drive, GitHub is the one in use: with a local server running and
\* a GitHub token configured, no read and no write is sent to GitHub.
C23_LocalServerFirst ==
    (localServer /\ token) =>
        /\ lastOp.op # "fetchReturn"
        /\ lastOp.op # "updateReturn"

\* C24: a poll tick that fires while offline, while a write is in flight or
\* while an earlier check has not completed starts no request, and at most one
\* poll-driven request is in flight.
C24_PollNotReentrant ==
    [][/\ (PollTick /\ (isOffline \/ isSyncing \/ isChecking)) => polls' = polls
       /\ polls' <= 1]_vars

\* a tick has just been skipped because the earlier check is still in flight,
\* with no write in flight and the client online
C24_Witness ==
    /\ lastOp = Op("poll", "skipped", "none")
    /\ isChecking /\ polls = 1
    /\ ~isOffline /\ ~isSyncing

\* C25: operations were queued while offline, the connection has returned and
\* stays, a token is set and every request succeeds without conflict: then
\* eventually pendingSyncQueue is empty, its localStorage key is removed and
\* data.json holds the snapshot of the last operation queued.
C25_OfflineChangesSync ==
    \A d \in Docs :
        (/\ ~isOffline
         /\ Len(pendingSyncQueue) > 0
         /\ pendingSyncQueue[Len(pendingSyncQueue)].data = d)
            ~> (pendingSyncQueue = <<>> /\ lsQueue = None /\ remote = d)

\* C26: after 'fetch latest' the call sends no PUT (neither the backup nor
\* data.json), and the document it fetches replaces appData wholesale while
\* currentSHA becomes the SHA of that remote document; after 'force save'
\* currentSHA is the remote SHA the check has read and the write of the unchanged
\* appData goes on.  appData is never a mix of the local and the remote document.
C26_ConflictResolution ==
    [][\A pr \in Running :
        /\ pr.choice = "fetch" => pr.pc = "conflictFetch"
        /\ Confirm(pr, TRUE) =>
                /\ Swap(pr, [pr EXCEPT !.pc = "conflictFetch", !.choice = "fetch",
                                       !.remoteSHA = NullSHA]) = procs'
                /\ UNCHANGED <<appData, currentSHA, remote>>
        /\ (\E resp \in FetchResponses : ConflictFetchResponse(pr, resp)) =>
                /\ remote' = remote
                /\ procs' = Del(procs, pr) \/ procs' = UnshareItems(Del(procs, pr))
                /\ appData' \in {appData, remote}
        /\ ConflictFetchResponse(pr, "ok") =>
                /\ appData' = remote
                /\ currentSHA' = SHA(remote)
        /\ Confirm(pr, FALSE) =>
                /\ currentSHA' = pr.remoteSHA
                /\ currentSHA' # currentSHA
                /\ UNCHANGED <<appData, remote>>
                /\ \E new \in BagToSet(procs') :
                        new.choice = "force" /\ new.pc \in {"createBackup", "refreshSHA"}]_vars

\* 'fetch latest' has replaced a local document that differed from the remote one
C26_Witness ==
    /\ lastOp = Returned("none", "refetched", "none")
    /\ appData = remote
    /\ currentSHA = SHA(remote)
    /\ lsBackup # None /\ lsBackup[1] # remote

\* C27: without a conflict updateDataToGitHub attempts the backup PUT first; when
\* the backup has answered, failed or not, the call goes on to the data.json
\* PUT, which carries a SHA; currentSHA becomes the SHA of the PUT response only
\* when that PUT is accepted; a rejected PUT leaves data.json unchanged.
C27_WriteProtocolOrder ==
    [][/\ \A pr \in Running :
            /\ (/\ token
                /\ pr.pc = "checkRemoteSHA"
                /\ \E resp \in Responses : CheckRemoteSHAResponse(pr, resp)
                /\ \A new \in BagToSet(procs') : new.pc # "confirm") =>
                    /\ Swap(pr, [pr EXCEPT !.pc = "createBackup"]) = procs'
                    /\ UNCHANGED <<remote, currentSHA>>
            /\ (pr.pc = "createBackup" /\ \E resp \in Responses : CreateBackupResponse(pr, resp)) =>
                    /\ Swap(pr, [pr EXCEPT !.pc = "refreshSHA"]) = procs'
                    /\ UNCHANGED <<remote, currentSHA, isSyncing>>
            /\ (pr.pc = "refreshSHA" /\ RefreshSHAResponse(pr, "ok")) =>
                    /\ Swap(pr, [pr EXCEPT !.pc = "put", !.putDoc = appData,
                                           !.putSha = SHA(remote)]) = procs'
                    /\ SHA(remote) # NullSHA
                    /\ remote' = remote
            /\ (pr.pc = "put" /\ PutResponse(pr, "ok")) =>
                    /\ remote' = pr.putDoc
                    /\ currentSHA' = SHA(remote')
            /\ (pr.pc = "put" /\ \E resp \in Responses \ {"ok"} : PutResponse(pr, resp)) =>
                    /\ remote' = remote
                    /\ currentSHA' = currentSHA
       /\ (/\ token
           /\ procs' # procs
           /\ CopiesIn("refreshSHA", Pcs(procs')) > CopiesIn("refreshSHA", Pcs(procs))) =>
            CopiesIn("createBackup", Pcs(procs')) < CopiesIn("createBackup", Pcs(procs))
       /\ (/\ procs' # procs
           /\ CopiesIn("put", Pcs(procs')) > CopiesIn("put", Pcs(procs))) =>
            CopiesIn("refreshSHA", Pcs(procs')) < CopiesIn("refreshSHA", Pcs(procs))
       /\ remote' # remote =>
            \/ \E d \in Docs : OtherWrite(d)
            \/ \E pr \in Running : pr.pc = "put" /\ PutResponse(pr, "ok")]_vars

\* a data.json PUT has just been accepted and changed the remote document
C27_Witness ==
    /\ lastOp = Returned("none", "ok", "none")
    /\ currentSHA = SHA(remote)
    /\ remote = appData
    /\ remote # 0

\* the entry a replay holds after its shift, as a sequence
ReplayItems(ps, res) ==
    IF res # None /\ res[1].item # NoItem THEN <<res[1].item>>
    ELSE IF \E pr \in BagToSet(ps) : pr.caller = "replay"
         THEN <<(CHOOSE pr \in BagToSet(ps) : pr.caller = "replay").item>>
         ELSE <<>>

\* q continues p
IsPrefix(p, q) == Len(p) <= Len(q) /\ SubSeq(q, 1, Len(p)) = p

\* C28: at process start the stored queue is loaded in its stored order; a replay
\* starts if and only if that queue is non-empty and the client is online; stored
\* text that does not parse gives the empty queue and no exception; while the
\* client is offline and no replay is under way, the queue keeps its entries in
\* memory and in localStorage.
C28_QueueLoadedAtStart ==
    [][/\ \A online \in BOOLEAN :
            Start(online) =>
                LET stored == IF lsQueue \in {None, Unparseable} THEN <<>> ELSE lsQueue[1]
                    item == ReplayItems(procs', resuming')
                IN  /\ StringifyQueue(item \o pendingSyncQueue') = stored
                    /\ item # <<>> <=> (stored # <<>> /\ online)
                    /\ lsQueue' = lsQueue
                    /\ lastOp'.op = "start"
       /\ (/\ isOffline /\ isOffline'
           /\ ReplayItems(procs, resuming) = <<>>
           /\ resuming = None) =>
                /\ IsPrefix(StringifyQueue(pendingSyncQueue), StringifyQueue(pendingSyncQueue'))
                /\ \/ lsQueue' = lsQueue
                   \/ lsQueue' = Some(StringifyQueue(pendingSyncQueue'))]_vars

\* the page has just been loaded offline with two stored entries
C28_Witness ==
    /\ lastOp = Op("start", "loaded", "none")
    /\ isOffline
    /\ Len(pendingSyncQueue) = 2
    /\ pendingSyncQueue[1].data # pendingSyncQueue[2].data
    /\ lsQueue = Some(StringifyQueue(pendingSyncQueue))

\* C29: the body of the data.json PUT that a replay makes for a queued entry is
\* that entry's snapshot: the data the entry holds, and the data of its stored
\* copy while localStorage still has one.
C29_ReplaySendsSnapshot ==
    \A pr \in Running :
        (pr.caller = "replay" /\ pr.pc = "put") =>
            /\ pr.putDoc = pr.item.data
            /\ lsQueue # None =>
                    \A i \in 1..Len(lsQueue[1]) :
                        lsQueue[1][i].timestamp = pr.item.timestamp =>
                            lsQueue[1][i].data = pr.putDoc

\* C30: a replay lets go of the entry it has shifted (goes on to the next entry,
\* or ends and removes the stored queue) only when the data.json PUT for that
\* entry was accepted, unless the entry is back in pendingSyncQueue.
C30_NoQueuedOperationLost ==
    [][(/\ resuming # None
        /\ resuming[1].item # NoItem
        /\ ReplayStep
        /\ \A i \in 1..Len(pendingSyncQueue') :
                pendingSyncQueue'[i].timestamp # resuming[1].item.timestamp) =>
            resuming[1].outcome \in {"ok", "queued"}]_vars

\* C31: processPendingSyncQueue terminates.  A turn of its loop that goes on to
\* the next turn at once (the awaited call has returned without waiting for the
\* network) leaves fewer entries in pendingSyncQueue, so that the turns that
\* follow each other without an event in between are finitely many.
C31_ReplayTerminates ==
    [][(/\ resuming # None
        /\ ReplayStep
        /\ resuming' # None) =>
            Len(pendingSyncQueue') < Len(pendingSyncQueue)]_vars

\* C32: isSyncing is false again once no updateDataToGitHub invocation is left,
\* and it is true while an invocation has a remote write request (the backup PUT
\* or the data.json PUT) outstanding.
C32_BusyFlag ==
    /\ procs = EmptyBag => ~isSyncing
    /\ \A pr \in Running : pr.pc \in {"createBackup", "put"} => isSyncing

\* C33: a write that initializeApp starts after its fetch has failed replaces a
\* non-empty remote data.json only when the conflict dialog was shown (and
\* answered with force save).  Under SpecInit every write is one of those: after
\* a fetch that succeeds, a document without tabs is the remote document itself.
C33_StartupKeepsRemote ==
    [][\A pr \in Running :
        (/\ pr.pc = "put"
         /\ remote # 0
         /\ PutResponse(pr, "ok")
         /\ remote' # remote) => pr.choice = "force"]_vars

\* C34: a call of updateDataToGitHub made online without a token saves the
\* document to the local backup and shows no message.
C34_NotConfiguredSilent ==
    (lastOp.op = "updateReturn" /\ lastOp.cause = "NO_TOKEN") =>
        /\ lsBackup = Some(appData)
        /\ lastOp.shown = "none"

\* C35: the stored error log has at most 50 entries, in call order, and every
\* failure of fetchDataFromGitHub, updateDataToGitHub, checkRemoteSHA and
\* createBackup has appended its entry.
C35_ErrorLogBoundedComplete ==
    [][(CreateBackupFails \/ \E context \in LoggingFunctions : FailureLogged(context)) =>
            /\ errorLog' # None
            /\ Len(errorLog'[1]) <= MaxErrors
            /\ \A i \in 1..(Len(errorLog'[1]) - 1) : errorLog'[1][i] < errorLog'[1][i + 1]
            /\ errorLog'[1][Len(errorLog'[1])] = clock'
            /\ errorLog # None =>
                    \/ errorLog'[1] = errorLog[1] \o <<clock'>>
                    \/ /\ Len(errorLog[1]) = MaxErrors
                       /\ errorLog'[1] = Tail(errorLog[1]) \o <<clock'>>]_vars

\* C36: in every reachable state appData has the three top-level fields
\* dateEntries, tabs and listItems: after fetches, writes, restores from the
\* local backup, queue replays and UI mutations.
C36_FieldsPresent == FieldNames \subseteq DOMAIN appData

\* an offline edit was queued and replayed, the remote file still lacks a
\* field, and a fetch has just put its healed content in appData
C36_Witness ==
    /\ lastOp.op = "fetchReturn" /\ lastOp.outcome = "ok"
    /\ ~(FieldNames \subseteq DOMAIN remote.content)
    /\ pendingSyncQueue = <<>> /\ clock > 0 /\ ~isOffline
    /\ lsBackup # None

\* C37: once initializeApp has completed, appData.tabs has at least one entry:
\* after addTab, deleteTab, refreshData, a refetch, saving a token.
C37_TabsNonEmpty == initPc = "none" => appData.tabs.items # <<>>

\* C38: every day has at most 3 priority tasks, after addTask, toggleTask,
\* deleteTask, toggleTaskPriority, drag reordering and shiftTaskDate, from the
\* empty document on.
C38_PriorityBound == \A day \in Days : PriorityCount(TasksOf(appData, day)) <= MaxPriority

\* the retention of the documentation: the past 5 days and the next 5 days
RetentionDays == 5

\* C39: a cleanup removes exactly the entries dated more than 5 days before or
\* after today (the boundary days stay), leaves tabs and listItems alone,
\* returns the number removed, and calls the update if and only if that number
\* is greater than 0.
C39_RetentionWindow ==
    [][\A now \in Instants24 : Cleanup(now) =>
            LET items == appData.dateEntries.items
                Kept(dateKey) == dateKey[1] - now.day \in (0 - RetentionDays)..RetentionDays
                removed == Len(items) - Len(SelectSeq(items, Kept))
            IN  /\ appData'.dateEntries.items = SelectSeq(items, Kept)
                /\ appData'.tabs = appData.tabs /\ appData'.listItems = appData.listItems
                /\ cleanupOldEntries(appData, now).removed = removed
                /\ lastOp'.op = "updateReturn" <=> removed > 0]_vars

\* a cleanup has run on the entries of both boundary days and kept them
C39_Witness ==
    /\ lastOp.op = "cleanup"
    /\ \E today \in Today :
            appData.dateEntries.items = <<<<today - RetentionDays>>, <<today + RetentionDays>>>>

====
